---- MODULE Spec2Model ----
(***************************************************************************)
(* A model of boilerdaq's acquisition and control loop.                    *)
(*                                                                         *)
(* Two generations of the program are modelled side by side:               *)
(*   - src/src/boilerdaq/__init__.py: the threaded Looper, whose           *)
(*     Controller guards against misread feedback (variables th...,        *)
(*     specification SpecThreaded);                                        *)
(*   - src/src/boilerdaq/daq.py: the timer-driven Looper with Result       *)
(*     graph, Writer, PowerResult instrument handles and Controller        *)
(*     (specification Spec; specification SpecScenario runs it in the      *)
(*     end-to-end scenario with simulated readings).                       *)
(*                                                                         *)
(* Floating point values are modelled by integers; the parameters are      *)
(* chosen so that every division of the modelled arithmetic is exact.      *)
(***************************************************************************)
EXTENDS Integers, Sequences, FiniteSets, TLC

(***************************************************************************)
(* Bounds of the model.                                                    *)
(***************************************************************************)
\* Ticks of the timer-driven Looper (daq.py) that the model follows.
MaxTicks == 2
\* Iterations of the write/control thread (__init__.py) that the model follows.
MaxThTicks == 4
\* Longest start delay of the threaded Controller, in units of DELAY.
MaxStartDelay == 2
\* Writer.add() calls after the Writer's construction.
MaxAdds == 1

\* Ticks of the end-to-end scenario.
ScenarioTicks == 5
\* Calls of a PowerResult's methods that the model follows.
MaxPowerOps == 4
\* update() calls of single Results that the model follows.
MaxUnitOps == 6
\* Data rows of a parameter file.
MaxRows == 2
\* Timeouts the event loop of the timer-driven program delivers.
MaxTimerTicks == 3
\* Capacity of a Result's history deque.  The program's value is
\* PLOT_HISTORY_DURATION * 60 * 1000 \div POLLING_INTERVAL = 150
\* (daq.py:49-53); the model scales it down.
PLOT_HISTORY_LENGTH == 2
\* Refreshes of the threaded program's plot that the model follows.
MaxPlots == 1
\* Results the threaded program's Writer holds and its Plotter draws.
ThResultCount == 2

(***************************************************************************)
(* Values.  Python's None and float("nan") are two values outside the      *)
(* range of every number the model computes.                               *)
(***************************************************************************)
None == 0 - 100000
NaN == 0 - 100001
IsNum(v) == v # None /\ v # NaN

Abs(x) == IF x < 0 THEN 0 - x ELSE x

\* OUTPUT_LIMITS of the stages and examples: (0, 300).
OUTPUT_LIMITS == <<0, 300>>

\* simple_pid.PID is a library outside the repository.  Its call returns a
\* control value clamped to output_limits; the model draws the value from
\* the two limits and one interior point.
PidOutputs == {OUTPUT_LIMITS[1], 30, OUTPUT_LIMITS[2]}

\* A control write: the value the PID returned, and whether the instrument
\* took the command (TRUE) or the write raised VisaIOError (FALSE).
ControlWrites == {<<30, TRUE>>, <<OUTPUT_LIMITS[2], TRUE>>, <<30, FALSE>>}

(***************************************************************************)
(*                 THE THREADED PROGRAM (__init__.py)                      *)
(***************************************************************************)
VARIABLES
    thFeedback,        \* feedback_result.value
    thCtl,             \* the Controller's fields
    thClock,           \* time since the Controller was built, in DELAYs
    thSupply,          \* the instrument: the last command that reached it
    thPc,              \* position of the write/control thread
    plot_window_open,  \* Looper.plot_window_open
    thLast,            \* record of the latest Controller.update() call
    thWr,              \* Writer.update(): the next Result to update, 0 outside
    thHist,            \* per Result: how many values its history has taken
    thPlot             \* the main thread's position in Plotter.update()

thVars == <<thFeedback, thCtl, thClock, thSupply, thPc, plot_window_open, thLast,
           thWr, thHist, thPlot>>

(***************************************************************************)
(* The state of the timer-driven program (daq.py).                         *)
(***************************************************************************)
VARIABLES
    hw,          \* the environment: "bench" or "scenario"
    results,     \* per Result: value and history
    instrument,  \* per Result: PowerResult.instrument, 0 for None
    handles,     \* every instrument handle open_instrument has returned
    supply,      \* the power supply: output state, last command received
    writer,      \* the Writer's fields
    files,       \* the CSV files, by path
    controller,  \* the Controller's fields
    plotted,     \* the histories the Plotter drew at its latest update
    lstate,      \* "Build", "Idle", "Running", "Stopped" or "Crashed"
    now,         \* ticks of the clock: Writer.update() calls so far
    lastTick,    \* record of the latest tick or Writer.update() call
    stage,       \* a stage being built: its lookups and its ResultGroup
    timer        \* the event loop of Looper.start(): timer and slot

daqVars == <<hw, results, instrument, handles, supply, writer, files,
             controller, plotted, lstate, now, lastTick, stage, timer>>

vars == <<daqVars, thVars>>

\* Values the feedback sensor can report: a negative one, and values that
\* differ by less than, exactly, and more than the guard's threshold.
ThFeedbackValues == {0 - 1, 0, 10, 11}

\* The guard of Controller.update(): the tolerated change of the feedback
\* value between two samples.
FEEDBACK_JUMP_LIMIT == 10

\* The command a PowerResult named `name` sends for write(value).
WriteCommand(name, value) ==
    IF name = "V" THEN <<"source:voltage", value>>
    ELSE IF name = "I" THEN <<"source:current", value>>
    ELSE <<>>

\* PowerResult.write(value) of __init__.py on an instrument whose last
\* received command is `last`.  `ok` is FALSE when the instrument raises
\* VisaIOError, which write() catches and prints: the command is lost.
ThPowerWrite(last, name, value, ok) ==
    IF WriteCommand(name, value) = <<>> THEN last
    ELSE IF ok THEN WriteCommand(name, value)
    ELSE last

\* A mutant of ThControllerUpdate: the guard is missing, as in daq.py.
ThControllerUpdateNoGuard(ctl, feedback, elapsed, pidOut) ==
    IF ~elapsed
    THEN [ctl |-> ctl, writes |-> <<>>, raised |-> FALSE, pid |-> FALSE]
    ELSE [ctl |-> [ctl EXCEPT !.last_feedback_value = ctl.feedback_value,
                              !.feedback_value = feedback],
          writes |-> <<pidOut>>, raised |-> FALSE, pid |-> TRUE]

\* Controller.update() of __init__.py.  `feedback` is feedback_result.value,
\* `elapsed` is time_elapsed > start_delay, `pidOut` is what self.pid(...)
\* returns when it is called.  The result holds the Controller's new fields,
\* the values passed to control_result.write() in order, whether the call
\* raised, and whether the PID was evaluated.
ThControllerUpdate(ctl, feedback, elapsed, pidOut) ==
    IF ~elapsed
    THEN [ctl |-> ctl, writes |-> <<>>, raised |-> FALSE, pid |-> FALSE]
    ELSE LET c1 == [ctl EXCEPT !.last_feedback_value = ctl.feedback_value,
                               !.feedback_value = feedback]
             feedback_value_change ==
                 Abs(c1.feedback_value - c1.last_feedback_value)
         IN  IF feedback_value_change > FEEDBACK_JUMP_LIMIT
                \/ c1.feedback_value < 0
             THEN [ctl |-> c1, writes |-> <<0>>, raised |-> TRUE, pid |-> FALSE]
             ELSE [ctl |-> c1, writes |-> <<pidOut>>, raised |-> FALSE,
                   pid |-> TRUE]

ThNoCall ==
    [called |-> FALSE, active |-> FALSE, prev |-> 0, fv |-> 0,
     aborted |-> FALSE, pid |-> FALSE, writes |-> <<>>, delivered |-> FALSE]

\* The state after the Results, the Controller and the Looper are built.
\* The Results of the threaded program, in the Writer's order; the first is
\* the Controller's feedback Result.
ThResults == 1..ThResultCount

\* Plotter before its first update(): no curve drawn.
ThNoPlot == [pc |-> 0, first |-> 0, torn |-> FALSE, done |-> 0]

ThInit ==
    /\ thFeedback \in ThFeedbackValues
    /\ \E d \in 0..MaxStartDelay, n \in {"V", "I"} :
          thCtl = [feedback_value |-> thFeedback,
                   last_feedback_value |-> thFeedback,
                   start_delay |-> d,
                   control_name |-> n]
    /\ thClock = 0
    /\ thSupply = [last |-> <<"source:current", 4>>]
    /\ thPc = "idle"
    /\ plot_window_open = FALSE
    /\ thLast = ThNoCall
    /\ thWr = 0
    /\ thHist = [k \in ThResults |-> 0]
    /\ thPlot = ThNoPlot

\* Looper.start(): set the flag, start the thread, show the window.
ThLooperStart ==
    /\ thPc = "idle"
    /\ thPc' = "check"
    /\ plot_window_open' = TRUE
    /\ UNCHANGED <<thFeedback, thCtl, thClock, thSupply, thLast, thWr, thHist, thPlot, daqVars>>

\* A loop that never tests the flag: `while True`.
ThLoopCheckAlways ==
    /\ thPc = "check"
    /\ thPc' = "write"
    /\ UNCHANGED <<thFeedback, thCtl, thClock, thSupply, plot_window_open, thLast, thWr, thHist, thPlot, daqVars>>

\* write_control_loop: the test of `while self.plot_window_open`.
ThLoopCheck ==
    /\ thPc = "check"
    /\ thPc' = IF plot_window_open THEN "write" ELSE "done"
    /\ UNCHANGED <<thFeedback, thCtl, thClock, thSupply, plot_window_open, thLast, thWr, thHist, thPlot, daqVars>>

\* write_control_loop: self.writer.update() sleeps DELAY, takes the time and
\* enters its loop over the Results.
ThWriterUpdate ==
    /\ thPc = "write"
    /\ thClock < MaxThTicks
    /\ thClock' = thClock + 1
    /\ thPc' = "updating"
    /\ thWr' = 1
    /\ UNCHANGED <<thFeedback, thCtl, thSupply, plot_window_open, thLast, thHist,
                   thPlot, daqVars>>

\* Writer.update(): result.update() of the next Result, which appends to
\* its history deque; the first Result is the feedback Result.  After the
\* last one Writer.write() appends the row and update() returns.
ThResultUpdate ==
    /\ thPc = "updating"
    /\ thHist' = [thHist EXCEPT ![thWr] = @ + 1]
    /\ IF thWr = 1 THEN thFeedback' \in ThFeedbackValues
                   ELSE thFeedback' = thFeedback
    /\ IF thWr = ThResultCount
       THEN thWr' = 0 /\ thPc' = "control"
       ELSE thWr' = thWr + 1 /\ thPc' = thPc
    /\ UNCHANGED <<thCtl, thClock, thSupply, plot_window_open, thLast, thPlot, daqVars>>

\* The main thread: plot_timer times out and the event loop calls
\* plot_loop(), which calls Plotter.update().
ThPlotLoop ==
    /\ plot_window_open
    /\ thPlot.pc = 0
    /\ thPlot.done < MaxPlots
    /\ thPlot' = [thPlot EXCEPT !.pc = 1, !.torn = FALSE]
    /\ UNCHANGED <<thFeedback, thCtl, thClock, thSupply, thPc, plot_window_open,
                   thLast, thWr, thHist, daqVars>>

\* Plotter.update(): curve.setData(self.time, history) of the next curve
\* reads the Result's history deque, the very object the write thread
\* appends to; nothing is locked.  `first` is what the first curve of this
\* refresh showed; `torn` tells that a later curve showed another tick.
ThSetData ==
    /\ thPlot.pc # 0
    /\ thPlot' = [pc |-> IF thPlot.pc = ThResultCount THEN 0 ELSE thPlot.pc + 1,
                  first |-> IF thPlot.pc = 1 THEN thHist[1] ELSE thPlot.first,
                  torn |-> \/ thPlot.torn
                           \/ thPlot.pc > 1 /\ thHist[thPlot.pc] # thPlot.first,
                  done |-> IF thPlot.pc = ThResultCount THEN thPlot.done + 1
                           ELSE thPlot.done]
    /\ UNCHANGED <<thFeedback, thCtl, thClock, thSupply, thPc, plot_window_open,
                   thLast, thWr, thHist, daqVars>>

\* write_control_loop: self.controller.update().  An exception ends the
\* thread: nothing catches it.
ThControllerStep ==
    /\ thPc = "control"
    /\ \E pidOut \in PidOutputs, ok \in BOOLEAN :
          LET r == ThControllerUpdate(thCtl, thFeedback,
                                      thClock > thCtl.start_delay, pidOut)
          IN  /\ thCtl' = r.ctl
              /\ thSupply' =
                    [last |-> IF r.writes = <<>> THEN thSupply.last
                              ELSE ThPowerWrite(thSupply.last, thCtl.control_name,
                                                r.writes[1], ok)]
              /\ thPc' = IF r.raised THEN "dead" ELSE "check"
              /\ thLast' = [called |-> TRUE,
                            active |-> thClock > thCtl.start_delay,
                            prev |-> thCtl.feedback_value,
                            fv |-> thFeedback,
                            aborted |-> r.raised,
                            pid |-> r.pid,
                            writes |-> r.writes,
                            delivered |-> r.writes # <<>> /\ ok]
    /\ UNCHANGED <<thFeedback, thClock, plot_window_open, thWr, thHist, thPlot, daqVars>>

\* The plot window is closed: exec_() returns and start() clears the flag.
ThCloseWindow ==
    /\ thPc # "idle"
    /\ plot_window_open
    /\ plot_window_open' = FALSE
    /\ UNCHANGED <<thFeedback, thCtl, thClock, thSupply, thPc, thLast, thWr, thHist, thPlot, daqVars>>

ThNext ==
    \/ ThLooperStart
    \/ ThLoopCheck
    \/ ThWriterUpdate
    \/ ThResultUpdate
    \/ ThControllerStep
    \/ ThPlotLoop
    \/ ThSetData
    \/ ThCloseWindow

(***************************************************************************)
(*                  THE TIMER-DRIVEN PROGRAM (daq.py)                      *)
(***************************************************************************)

(***************************************************************************)
(* The configuration: the rows of the sensor and parameter files, and the  *)
(* Results the stage modules build from them, in construction order.       *)
(***************************************************************************)
\* CURRENT_LIMIT of the stages.
CURRENT_LIMIT == 4

\* Rows of the power supply file (PowerParam.get).
all_power_supplies ==
    << [kind |-> "PowerResult", name |-> "V", unit |-> "V"] >>

\* Rows of the sensor file (Sensor.get).  The last row repeats the name and
\* unit of the first one.
all_sensors ==
    << [kind |-> "Reading", name |-> "T0", reading |-> "temperature", unit |-> "C"],
       [kind |-> "Reading", name |-> "T1", reading |-> "temperature", unit |-> "C"],
       [kind |-> "Reading", name |-> "P", reading |-> "voltage", unit |-> "V"],
       [kind |-> "Reading", name |-> "T0", reading |-> "temperature", unit |-> "C"] >>

\* Rows of the scaled parameter file (ScaledParam.get).
scaled_params ==
    << [kind |-> "ScaledResult", name |-> "T0cal", unscaled_sensor |-> "T0",
        scale |-> 2, offset |-> 1, unit |-> "C"],
       [kind |-> "ScaledResult", name |-> "T1cal", unscaled_sensor |-> "T1",
        scale |-> 1, offset |-> 0, unit |-> "C"] >>

\* Rows of the flux parameter file (FluxParam.get).  The second row has the
\* sensors of the first one swapped.
flux_params ==
    << [kind |-> "Flux", name |-> "Q01", origin_sensor |-> "T0cal",
        distant_sensor |-> "T1cal", conductivity |-> 2, length |-> 1,
        unit |-> "W/m^2"],
       [kind |-> "Flux", name |-> "Q10", origin_sensor |-> "T1cal",
        distant_sensor |-> "T0cal", conductivity |-> 2, length |-> 1,
        unit |-> "W/m^2"] >>

\* Rows of the extrapolation parameter file (ExtrapParam.get).
extrap_params ==
    << [kind |-> "ExtrapResult", name |-> "T2ext", origin_sensor |-> "T1cal",
        flux |-> "Q01", conductivity |-> 2, length |-> 1, unit |-> "C"] >>

\* The FitResult of surface_control.py: Param(name, unit).
fit_params ==
    << [kind |-> "FitResult", name |-> "T_s", unit |-> "C",
        results_to_fit |-> <<"T0cal", "T1cal">>] >>

\* Every Result object of the program has an identity: its place in this
\* sequence, which lists the objects in the order the stages build them.
Source ==
    all_power_supplies \o all_sensors \o scaled_params \o flux_params
        \o extrap_params \o fit_params

Ids == 1..Len(Source)

IdsFrom(first, rows) == [k \in 1..Len(rows) |-> first + k - 1]

power_results == IdsFrom(1, all_power_supplies)
READINGS == IdsFrom(Len(power_results) + 1, all_sensors)
SCALED_RESULTS == IdsFrom(READINGS[Len(READINGS)] + 1, scaled_params)
fluxes == IdsFrom(SCALED_RESULTS[Len(SCALED_RESULTS)] + 1, flux_params)
extrap_results == IdsFrom(fluxes[Len(fluxes)] + 1, extrap_params)
fit_results == IdsFrom(extrap_results[Len(extrap_results)] + 1, fit_params)

BASE_RESULTS == READINGS \o SCALED_RESULTS \o fluxes \o extrap_results
CONTROLLED_RESULTS == power_results \o BASE_RESULTS

\* A get_result that returns the last Result of that name.
get_result_last(name, rlist) ==
    LET hits == {k \in 1..Len(rlist) : Source[rlist[k]].name = name}
    IN  IF hits = {} THEN 0
        ELSE rlist[CHOOSE k \in hits : \A j \in hits : k >= j]

\* get_result(name, results): the first Result of the list whose source has
\* that name; list.index raises ValueError when there is none, which the
\* model shows as 0.
get_result(name, rlist) ==
    LET hits == {k \in 1..Len(rlist) : Source[rlist[k]].name = name}
    IN  IF hits = {} THEN 0
        ELSE rlist[CHOOSE k \in hits : \A j \in hits : k <= j]

\* ResultGroup(group_dict, results): for each key in the dict's order, the
\* Results its names resolve to.  A name get_result() does not find raises
\* ValueError out of the constructor, so no ResultGroup object exists.
ResultGroup(group_dict, rlist) ==
    LET found == [g \in 1..Len(group_dict) |->
                    [k \in 1..Len(group_dict[g].names) |->
                        get_result(group_dict[g].names[k], rlist)]]
    IN  IF \E g \in 1..Len(group_dict) : \E k \in 1..Len(found[g]) : found[g][k] = 0
        THEN [raised |-> "ValueError", data |-> <<>>]
        ELSE [raised |-> "none",
              data |-> [g \in 1..Len(group_dict) |->
                          [key |-> group_dict[g].key, results |-> found[g]]]]

\* The upstream Results each constructor resolves by name, as the stages
\* call them: ScaledResult(param, READINGS), Flux(param, SCALED_RESULTS),
\* ExtrapResult(param, SCALED_RESULTS + fluxes),
\* FitResult(results_to_fit = [get_result(n, CONTROLLED_RESULTS) ...]).
unscaled_result(i) == get_result(Source[i].unscaled_sensor, READINGS)
origin_result(i) ==
    IF Source[i].kind = "Flux"
    THEN get_result(Source[i].origin_sensor, SCALED_RESULTS)
    ELSE get_result(Source[i].origin_sensor, SCALED_RESULTS \o fluxes)
distant_result(i) == get_result(Source[i].distant_sensor, SCALED_RESULTS)
flux_result(i) == get_result(Source[i].flux, SCALED_RESULTS \o fluxes)
results_to_fit(i) ==
    [k \in 1..Len(Source[i].results_to_fit) |->
        get_result(Source[i].results_to_fit[k], CONTROLLED_RESULTS)]

\* The column label Writer.add composes: f"{name} ({unit})".
Label(i) == <<Source[i].name, Source[i].unit>>

(***************************************************************************)
(* The hardware and the libraries: what a read can return.                  *)
(***************************************************************************)
\* A read that fails: t_in / v_in raise ULError, query raises VisaIOError.
Failure == 0 - 100002

\* What the boards report.  In the "scenario" environment the readings are
\* the simulated ones of the end-to-end scenario: in tick t = 1, 2, ... T0
\* reads 10, 11, ... (and 10 while the Writer is built, t = 0), T1 is
\* constantly 5, P is any of three voltages, and no read fails.
HwValues(env, i, t) ==
    IF env = "scenario"
    THEN IF Source[i].name = "T0" THEN {10 + (IF t = 0 THEN 0 ELSE t - 1)}
         ELSE IF Source[i].name = "T1" THEN {5}
         ELSE {1, 2, 3}
    ELSE IF i = READINGS[1] THEN {0 - 1, 12, Failure}
         ELSE IF Source[i].name \in {"T0", "T1"} THEN {5}
         ELSE {2, Failure}

\* What the power supply answers to "measure:voltage?".
QueryValues == {3, Failure}

\* What fit_from_params yields for the fitted quantity: a number, or nan
\* when the fit does not converge.
FitValues == {7, NaN}

(***************************************************************************)
(* Result and its variants.  An operation works on a "world" w: the        *)
(* Results, the instrument handles and the supply, with w.raised naming    *)
(* the exception that has propagated out ("none" when there is none) and   *)
(* w.cnt counting the update() calls each Result has completed.            *)
(***************************************************************************)
\* deque.append on a deque with maxlen = PLOT_HISTORY_LENGTH.
Push(history, v) ==
    IF PLOT_HISTORY_LENGTH = 0 THEN <<>>
    ELSE IF Len(history) < PLOT_HISTORY_LENGTH THEN Append(history, v)
    ELSE Append(Tail(history), v)

\* deque.extend([v] * n).
RECURSIVE Extend(_, _, _)
Extend(history, v, n) ==
    IF n <= 0 THEN history ELSE Extend(Push(history, v), v, n - 1)

Raise(w, exc) == [w EXCEPT !.raised = exc]

\* The read or query of Result i has failed in the hardware.
Fail(w, i) == [w EXCEPT !.failed = @ \cup {i}]

\* A mutant of ResultUpdate: the value is not appended to the history.
ResultUpdateNoAppend(w, i) ==
    [w EXCEPT !.cnt[i] = @ + 1]

\* A mutant of ResultUpdate: a full deque drops its newest entry.
ResultUpdateDropNewest(w, i) ==
    [w EXCEPT !.rs[i].history =
                  IF Len(@) < PLOT_HISTORY_LENGTH THEN Append(@, w.rs[i].value)
                  ELSE Append(SubSeq(@, 1, Len(@) - 1), w.rs[i].value),
              !.cnt[i] = @ + 1]

\* Result.update(): self.history.append(self.value).
ResultUpdate(w, i) ==
    [w EXCEPT !.rs[i].history = Push(@, w.rs[i].value),
              !.cnt[i] = @ + 1]

SetValue(w, i, v) == [w EXCEPT !.rs[i].value = v]

\* Reading.update() with the board's answer `inp`.
ReadingUpdate(w, i, inp) ==
    IF Source[i].reading = "temperature"
    THEN IF inp = Failure THEN ResultUpdate(SetValue(Fail(w, i), i, 0), i)
         ELSE ResultUpdate(SetValue(w, i, inp), i)
    ELSE IF Source[i].reading = "voltage"
    THEN IF inp = Failure THEN Raise(Fail(w, i), "ULError")
         ELSE ResultUpdate(SetValue(w, i, inp), i)
    ELSE ResultUpdate(w, i)

\* Python arithmetic on values that may be None (TypeError) or nan.
Arith(w, i, operands, v) ==
    IF \E k \in 1..Len(operands) : operands[k] = None
    THEN Raise(w, "TypeError")
    ELSE IF \E k \in 1..Len(operands) : operands[k] = NaN
    THEN ResultUpdate(SetValue(w, i, NaN), i)
    ELSE ResultUpdate(SetValue(w, i, v), i)

\* A ScaledResult.update() that leaves the offset out.
ScaledResultUpdateNoOffset(w, i) ==
    LET up == w.rs[unscaled_result(i)].value
    IN  Arith(w, i, <<up>>, up * Source[i].scale)

\* A ScaledResult.update() that stores the scaled value in the unscaled
\* Result as well.
ScaledResultUpdateInPlace(w, i) ==
    LET up == w.rs[unscaled_result(i)].value
        v == up * Source[i].scale + Source[i].offset
    IN  Arith(SetValue(w, unscaled_result(i), IF IsNum(up) THEN v ELSE up),
              i, <<up>>, v)

\* ScaledResult.update().
ScaledResultUpdate(w, i) ==
    LET up == w.rs[unscaled_result(i)].value
    IN  Arith(w, i, <<up>>, up * Source[i].scale + Source[i].offset)

\* A Flux.update() that takes distant minus origin.
FluxUpdateSwapped(w, i) ==
    LET o == w.rs[origin_result(i)].value
        d == w.rs[distant_result(i)].value
    IN  Arith(w, i, <<o, d>>,
              (Source[i].conductivity \div Source[i].length) * (d - o))

\* Flux.update().
FluxUpdate(w, i) ==
    LET o == w.rs[origin_result(i)].value
        d == w.rs[distant_result(i)].value
    IN  Arith(w, i, <<o, d>>,
              (Source[i].conductivity \div Source[i].length) * (o - d))

\* An ExtrapResult.update() that adds the flux term.
ExtrapResultUpdateAdds(w, i) ==
    LET o == w.rs[origin_result(i)].value
        f == w.rs[flux_result(i)].value
    IN  Arith(w, i, <<o, f>>,
              o + ((f * Source[i].length) \div Source[i].conductivity))

\* ExtrapResult.update().
ExtrapResultUpdate(w, i) ==
    LET o == w.rs[origin_result(i)].value
        f == w.rs[flux_result(i)].value
    IN  Arith(w, i, <<o, f>>,
              o - ((f * Source[i].length) \div Source[i].conductivity))

\* A mutant of FitResultUpdate: a fit that does not converge raises.
FitResultUpdateRaises(w, i, inp) ==
    LET ys == [k \in 1..Len(results_to_fit(i)) |->
                  w.rs[results_to_fit(i)[k]].value]
    IN  IF \E k \in 1..Len(ys) : ys[k] = None
        THEN Raise(w, "TypeError")
        ELSE IF inp = NaN THEN Raise(w, "RuntimeError")
        ELSE ResultUpdate(SetValue(w, i, inp), i)

\* A FitResult.update() that, when the fit has not converged, looks for a
\* Result to fall back on by a name that no Result carries.
FitResultUpdateLookup(w, i, inp) ==
    LET ys == [k \in 1..Len(results_to_fit(i)) |->
                  w.rs[results_to_fit(i)[k]].value]
    IN  IF \E k \in 1..Len(ys) : ys[k] = None
        THEN Raise(w, "TypeError")
        ELSE IF inp = NaN /\ get_result("T9cal", CONTROLLED_RESULTS) = 0
        THEN Raise(w, "ValueError")
        ELSE ResultUpdate(SetValue(w, i, inp), i)

\* FitResult.update() with the fitted quantity `inp` that fit_from_params
\* yields.  A None among the values to fit fails inside the fit.
FitResultUpdate(w, i, inp) ==
    LET ys == [k \in 1..Len(results_to_fit(i)) |->
                  w.rs[results_to_fit(i)[k]].value]
    IN  IF \E k \in 1..Len(ys) : ys[k] = None
        THEN Raise(w, "TypeError")
        ELSE ResultUpdate(SetValue(w, i, inp), i)

\* instrument.write(command) or instrument.query(command) on the handle
\* self.instrument of PowerResult i: the handle's log gets the command.
Send(w, i, command) ==
    [w EXCEPT !.handles[w.instrument[i]].log = Append(@, command)]

\* PowerResult.open(): open_instrument returns a new handle, which is sent
\* "output:state on" and the current limit.
PowerResultOpen(w, i) ==
    LET h == Len(w.handles) + 1
        w1 == [w EXCEPT !.handles = Append(@, [owner |-> i, open |-> TRUE,
                                               armed |-> FALSE,
                                               disarmed |-> FALSE,
                                               log |-> <<>>]),
                        !.instrument[i] = h]
        w2 == Send(w1, i, <<"output:state", 1>>)
        w3 == Send(w2, i, <<"source:current", CURRENT_LIMIT>>)
    IN  [w3 EXCEPT !.handles[h].armed = TRUE,
                   !.supply = [output |-> "on",
                               last |-> <<"source:current", CURRENT_LIMIT>>]]

\* A mutant of PowerResultClose: no test of self.instrument.
PowerResultCloseUnguarded(w, i) ==
    IF w.instrument[i] = 0 THEN Raise(w, "AttributeError")
    ELSE LET w1 == Send(w, i, <<"output:state", 0>>)
         IN  [w1 EXCEPT !.handles[w.instrument[i]].open = FALSE,
                        !.handles[w.instrument[i]].disarmed = TRUE,
                        !.handles[w.instrument[i]].log =
                            Append(@, <<"close">>),
                        !.instrument[i] = 0,
                        !.supply = [output |-> "off",
                                    last |-> <<"output:state", 0>>]]

\* A mutant of PowerResultClose: the handle is released with its output on.
PowerResultCloseArmed(w, i) ==
    IF w.instrument[i] = 0 THEN w
    ELSE [w EXCEPT !.handles[w.instrument[i]].open = FALSE,
                   !.handles[w.instrument[i]].log = Append(@, <<"close">>),
                   !.instrument[i] = 0]

\* PowerResult.close(): nothing when self.instrument is None; else
\* "output:state off" is sent, the handle is closed and forgotten.
PowerResultClose(w, i) ==
    IF w.instrument[i] = 0 THEN w
    ELSE LET w1 == Send(w, i, <<"output:state", 0>>)
         IN  [w1 EXCEPT !.handles[w.instrument[i]].open = FALSE,
                        !.handles[w.instrument[i]].disarmed = TRUE,
                        !.handles[w.instrument[i]].log =
                            Append(@, <<"close">>),
                        !.instrument[i] = 0,
                        !.supply = [output |-> "off",
                                    last |-> <<"output:state", 0>>]]

\* A mutant of PowerResultUpdate: VisaIOError is not caught.
PowerResultUpdateUncaught(w, i, inp) ==
    IF Source[i].name \notin {"V", "I"} THEN ResultUpdate(w, i)
    ELSE IF w.instrument[i] = 0 THEN Raise(w, "AttributeError")
    ELSE LET w1 == Send(w, i, <<"measure:voltage?">>)
         IN  IF inp = Failure THEN Raise(Fail(w1, i), "VisaIOError")
             ELSE ResultUpdate(SetValue(w1, i, inp), i)

\* PowerResult.update() with the instrument's answer `inp`.  A query on
\* self.instrument = None raises AttributeError, which is not caught; a
\* query that raises VisaIOError (inp = Failure) is caught and the value is
\* left as it was.
PowerResultUpdate(w, i, inp) ==
    IF Source[i].name \notin {"V", "I"} THEN ResultUpdate(w, i)
    ELSE IF w.instrument[i] = 0 THEN Raise(w, "AttributeError")
    ELSE LET w1 == Send(w, i, <<"measure:voltage?">>)
         IN  IF inp = Failure THEN ResultUpdate(Fail(w1, i), i)
             ELSE ResultUpdate(SetValue(w1, i, inp), i)

\* PowerResult.write(value); `ok` is FALSE when the instrument raises
\* VisaIOError, which write() catches.
PowerResultWrite(w, i, value, ok) ==
    IF Source[i].name \notin {"V", "I"} THEN w
    ELSE IF w.instrument[i] = 0 THEN Raise(w, "AttributeError")
    ELSE LET w1 == Send(w, i, WriteCommand(Source[i].name, value))
         IN  IF ~ok THEN w1
             ELSE [w1 EXCEPT !.supply.last = WriteCommand(Source[i].name, value)]

\* The answers the environment can give to Result i's update() in tick t.
Answers(env, i, t) ==
    IF Source[i].kind = "Reading" THEN HwValues(env, i, t)
    ELSE IF Source[i].kind = "PowerResult"
    THEN (IF env = "scenario" THEN QueryValues \ {Failure} ELSE QueryValues)
    ELSE IF Source[i].kind = "FitResult" THEN FitValues
    ELSE {0}

\* result.update(), dispatched on the Result's class.
Update(w, i, inp) ==
    IF Source[i].kind = "Reading" THEN ReadingUpdate(w, i, inp)
    ELSE IF Source[i].kind = "ScaledResult" THEN ScaledResultUpdate(w, i)
    ELSE IF Source[i].kind = "Flux" THEN FluxUpdate(w, i)
    ELSE IF Source[i].kind = "ExtrapResult" THEN ExtrapResultUpdate(w, i)
    ELSE IF Source[i].kind = "FitResult" THEN FitResultUpdate(w, i, inp)
    ELSE PowerResultUpdate(w, i, inp)

\* PowerResult.one_shot(): open, update, close.  An exception in update()
\* leaves the instrument open.
PowerResultOneShot(w, i, inp) ==
    LET u == PowerResultUpdate(PowerResultOpen(w, i), i, inp)
    IN  IF u.raised # "none" THEN u ELSE PowerResultClose(u, i)

(***************************************************************************)
(* Writer.                                                                 *)
(***************************************************************************)
BasePaths == {"results", "benchmark"}

\* path.with_stem(f"{path.name}_{file_time}"): the file's path is made of
\* the base path and the Writer's time of construction, to the second.
PathOf(base, time) == <<base, time>>

Paths == {PathOf(b, 0) : b \in BasePaths}

ZeroCnt == [i \in Ids |-> 0]

\* The world an operation starts in.
World ==
    [rs |-> results, instrument |-> instrument, handles |-> handles,
     supply |-> supply, raised |-> "none", cnt |-> ZeroCnt, failed |-> {}]

Values(w, list) == [k \in 1..Len(list) |-> w.rs[list[k]].value]

\* dict(zip(fieldnames, values, strict=True)) written by
\* DictWriter(fieldnames).writerow: the cell under a fieldname is the value
\* the dict holds for it, which is the value zipped with the LAST
\* occurrence of that fieldname.
DictRow(fieldnames, values) ==
    [k \in 1..Len(fieldnames) |->
        values[CHOOSE j \in 1..Len(fieldnames) :
                  /\ fieldnames[j] = fieldnames[k]
                  /\ \A m \in 1..Len(fieldnames) :
                        fieldnames[m] = fieldnames[k] => m <= j]]

\* Writer.add, the loop over the results: one_shot() or update(), then the
\* history is filled up with the value.  The set of worlds the loop can end
\* in, for every answer of the hardware, from the worlds W.
AddOne(env, w, i) ==
    IF w.raised # "none" THEN {w}
    ELSE { LET u == IF Source[i].kind = "PowerResult"
                    THEN PowerResultOneShot(w, i, inp)
                    ELSE Update(w, i, inp)
           IN  IF u.raised # "none" THEN u
               ELSE [u EXCEPT !.rs[i].history =
                        Extend(@, u.rs[i].value, PLOT_HISTORY_LENGTH - 1)]
           : inp \in Answers(env, i, 0) }

RECURSIVE AddEach(_, _, _, _)
AddEach(env, W, list, k) ==
    IF k > Len(list) THEN W
    ELSE AddEach(env, UNION {AddOne(env, w, list[k]) : w \in W}, list, k + 1)

Fieldnames(list) == <<(<<"time">>)>> \o [k \in 1..Len(list) |-> Label(list[k])]

\* A mutant of WriterAdd: the file gets its header only, no first row.
WriterAddHeaderOnly(env, w0, wr, fs, base, list) ==
    { [w |-> w,
       writer |-> IF w.raised # "none" THEN wr
                  ELSE [wr EXCEPT !.paths = Append(@, PathOf(base, wr.time)),
                                  !.results = @ \o list,
                                  !.result_groups = Append(@, list),
                                  !.fieldname_groups = Append(@, Fieldnames(list))],
       files |-> IF w.raised # "none" THEN fs
                 ELSE [fs EXCEPT ![PathOf(base, wr.time)] = <<Fieldnames(list)>>]]
      : w \in AddEach(env, {w0}, list, 1) }

\* Writer.add(path, results) on the Writer wr and the files fs: the set of
\* outcomes [w, writer, files].  self.time is a str once update() has run,
\* and then self.time.isoformat raises AttributeError.
WriterAdd(env, w0, wr, fs, base, list) ==
    IF wr.time_is_str
    THEN {[w |-> Raise(w0, "AttributeError"), writer |-> wr, files |-> fs]}
    ELSE { [w |-> w,
            writer |-> IF w.raised # "none" THEN wr
                       ELSE [wr EXCEPT !.paths = Append(@, PathOf(base, wr.time)),
                                       !.results = @ \o list,
                                       !.result_groups = Append(@, list),
                                       !.fieldname_groups =
                                           Append(@, Fieldnames(list))],
            files |-> IF w.raised # "none" THEN fs
                      ELSE [fs EXCEPT ![PathOf(base, wr.time)] =
                               << Fieldnames(list),
                                  DictRow(Fieldnames(list),
                                          <<wr.time>> \o Values(w, list)) >>]]
           : w \in AddEach(env, {w0}, list, 1) }

\* Writer.start(): open every PowerResult of self.results.
RECURSIVE WriterStart(_, _, _)
WriterStart(w, list, k) ==
    IF k > Len(list) THEN w
    ELSE WriterStart(IF Source[list[k]].kind = "PowerResult"
                     THEN PowerResultOpen(w, list[k]) ELSE w,
                     list, k + 1)

\* Writer.update, the loops over the groups and their results.
UpdateOne(env, t, w, i) ==
    IF w.raised # "none" THEN {w}
    ELSE {Update(w, i, inp) : inp \in Answers(env, i, t)}

RECURSIVE UpdateEach(_, _, _, _, _)
UpdateEach(env, t, W, list, k) ==
    IF k > Len(list) THEN W
    ELSE UpdateEach(env, t, UNION {UpdateOne(env, t, w, list[k]) : w \in W},
                    list, k + 1)

RECURSIVE Flatten(_)
Flatten(groups) ==
    IF groups = <<>> THEN <<>> ELSE Head(groups) \o Flatten(Tail(groups))

\* The update() calls of one Writer.update(), in order:
\* for results in self.result_groups: for result in results.
UpdateCalls(wr) == Flatten(wr.result_groups)

\* Writer.write(): one row appended to every file.
RECURSIVE WriterWrite(_, _, _, _)
WriterWrite(w, wr, fs, k) ==
    IF k > Len(wr.paths) THEN fs
    ELSE WriterWrite(w, wr,
            [fs EXCEPT ![wr.paths[k]] =
                Append(@, DictRow(wr.fieldname_groups[k],
                                  <<wr.time>> \o Values(w, wr.result_groups[k])))],
            k + 1)

\* Writer.update() at clock time t: the set of outcomes [w, writer, files].
WriterUpdate(env, t, w0, wr, fs) ==
    LET wr1 == [wr EXCEPT !.time = t, !.time_is_str = TRUE]
    IN  { [w |-> w, writer |-> wr1,
           files |-> IF w.raised # "none" THEN fs ELSE WriterWrite(w, wr1, fs, 1)]
          : w \in UpdateEach(env, t, {w0}, UpdateCalls(wr1), 1) }

(***************************************************************************)
(* Controller.                                                             *)
(***************************************************************************)
\* Controller.update(): read the feedback value, evaluate the PID, write the
\* control value.  `pidOut` is what self.pid(...) returns for a number; the
\* PID raises TypeError for None and returns nan for nan.
ControllerUpdate(w, ctl, pidOut, ok) ==
    LET fv == w.rs[ctl.feedback_result].value
        c1 == [ctl EXCEPT !.feedback_value = fv]
        control_value == IF fv = NaN THEN NaN ELSE pidOut
    IN  IF fv = None
        THEN [w |-> Raise(w, "TypeError"), ctl |-> c1, writes |-> <<>>,
              pid |-> FALSE]
        ELSE [w |-> PowerResultWrite(w, ctl.control_result, control_value, ok),
              ctl |-> c1, writes |-> <<control_value>>, pid |-> TRUE]

NoController ==
    [present |-> FALSE, control_result |-> 0, feedback_result |-> 0,
     feedback_value |-> None]

NoCtlCall ==
    [called |-> FALSE, prev |-> None, fv |-> None, writes |-> <<>>,
     pid |-> FALSE, raised |-> "none", delivered |-> FALSE]

NoTick ==
    [kind |-> "none", log |-> <<>>, cnt |-> ZeroCnt, calls |-> <<>>,
     raised |-> "none", before |-> [i \in Ids |-> <<>>], ctl |-> NoCtlCall,
     failed |-> {}, wrote |-> FALSE, last |-> <<>>,
     values |-> [i \in Ids |-> None]]

(***************************************************************************)
(* Plotter and Looper.                                                     *)
(***************************************************************************)
\* Plotter.update(): every curve is redrawn from its Result's history.
PlotterUpdate(w) == [i \in Ids |-> w.rs[i].history]

CtlCall(ctl, c, ok) ==
    [called |-> TRUE, prev |-> ctl.feedback_value, fv |-> c.ctl.feedback_value,
     writes |-> c.writes, pid |-> c.pid, raised |-> c.w.raised,
     delivered |-> c.writes # <<>> /\ c.w.raised = "none" /\ ok]

\* Looper.plot(): the timer's slot when there is no controller.
LooperPlot(env, t, w0, wr, fs, ctl) ==
    { [w |-> o.w, writer |-> o.writer, files |-> o.files, ctl |-> ctl,
       plotted |-> PlotterUpdate(w0), log |-> <<"plot", "write">>,
       call |-> NoCtlCall]
      : o \in WriterUpdate(env, t, w0, wr, fs) }

\* Looper.plot_control(): the timer's slot when there is a controller.
\* An exception out of Writer.update() ends the slot.
LooperPlotControl(env, t, w0, wr, fs, ctl) ==
    UNION { IF o.w.raised # "none"
            THEN {[w |-> o.w, writer |-> o.writer, files |-> o.files,
                   ctl |-> ctl, plotted |-> PlotterUpdate(w0),
                   log |-> <<"plot", "write">>, call |-> NoCtlCall]}
            ELSE { LET c == ControllerUpdate(o.w, ctl, cw[1], cw[2])
                   IN  [w |-> c.w, writer |-> o.writer, files |-> o.files,
                        ctl |-> c.ctl, plotted |-> PlotterUpdate(w0),
                        log |-> <<"plot", "write", "control">>,
                        call |-> CtlCall(ctl, c, cw[2])]
                   : cw \in ControlWrites }
            : o \in WriterUpdate(env, t, w0, wr, fs) }

\* A Looper.start() that opens no instrument before the event loop runs.
LooperStartOpenNone(w, wr, ctl) == w

\* Looper.start() up to the event loop: Writer.start(), then
\* Controller.start() if there is a controller.
LooperStartOpen(w, wr, ctl) ==
    LET w1 == WriterStart(w, wr.results, 1)
    IN  IF ctl.present THEN PowerResultOpen(w1, ctl.control_result) ELSE w1

\* A Looper.start() that returns without closing the controller.
LooperStartCloseNone(w, ctl) == w

\* Looper.start() after the event loop has ended: Controller.close() if
\* there is a controller.
LooperStartClose(w, ctl) ==
    IF ctl.present THEN PowerResultClose(w, ctl.control_result) ELSE w

(***************************************************************************)
(* The stages: which Results a stage hands to its Writer and Controller.   *)
(***************************************************************************)
Id(name) == get_result(name, CONTROLLED_RESULTS \o fit_results)

\* The second sensor row named T0.
T0again == READINGS[Len(READINGS)]

\* Writer(RESULTS_PATH, results) of the stages.
WriterLists ==
    { <<Id("V"), Id("T0"), Id("P"), Id("T0cal")>>,
      <<Id("T0"), Id("T1"), Id("T0cal"), Id("T1cal"), Id("Q01"), Id("T2ext"),
        Id("T_s")>>,
      <<Id("T0"), T0again>> }

\* The Results of the end-to-end scenario: three sensors, the scaled
\* results and the flux between them.
ScenarioList ==
    <<Id("T0"), Id("T1"), Id("P"), Id("T0cal"), Id("T1cal"), Id("Q01")>>

\* Lists that register one Reading and the ScaledResult made from it, in
\* both orders.
OrderLists == { <<Id("T0"), Id("T0cal")>>, <<Id("T0cal"), Id("T0")>> }

ListsOf(env) ==
    IF env = "scenario" THEN {ScenarioList}
    ELSE IF env = "order" THEN OrderLists
    ELSE WriterLists

\* How many times the timer fires in a run.
TicksOf(env) == IF env = "scenario" THEN ScenarioTicks ELSE MaxTicks

\* writer.add(path, results).
AddLists == { <<Id("T1"), Id("V")>> }

\* Controller(control_result, feedback_result, ...): the control Result is
\* get_result(CONTROL_SENSOR_NAME, ...), the feedback Result is T0cal
\* (control.py) or the FitResult (surface_control.py).
FeedbackResults == {Id("T0cal"), Id("T_s")}

(***************************************************************************)
(* The specification of the timer-driven program.                          *)
(***************************************************************************)
NoWriter ==
    [exists |-> FALSE, paths |-> <<>>, results |-> <<>>,
     result_groups |-> <<>>, fieldname_groups |-> <<>>,
     time |-> 0, time_is_str |-> FALSE]

\* No lookup made, no parameter file loaded, no ResultGroup built and no
\* rise-estimating Result built yet.
NoStage == [kind |-> "none", pc |-> "import", group_dict |-> <<>>, group |-> <<>>,
            raised |-> "none", lookup |-> <<>>, load |-> <<>>, rise |-> <<>>]

\* The event loop before the timer has elapsed: no timeout is pending, no
\* slot is running.  `slots` holds the position of every slot activation in
\* progress, the innermost last; `late` tells that the pending or latest
\* timeout came while a slot was running.
NoTimer == [due |-> FALSE, slots |-> <<>>, late |-> FALSE]

\* The state after the Results are built: Result.__init__ leaves the value
\* None and the history empty, PowerResult.__init__ leaves instrument None.
DaqInit ==
    /\ results = [i \in Ids |-> [value |-> None, history |-> <<>>]]
    /\ instrument = [i \in Ids |-> 0]
    /\ handles = <<>>
    /\ supply = [output |-> "off", last |-> <<"output:state", 0>>]
    /\ writer = NoWriter
    /\ files = [p \in Paths |-> <<>>]
    /\ controller = NoController
    /\ plotted = [i \in Ids |-> <<>>]
    /\ lstate = "Build"
    /\ now = 0
    /\ lastTick = NoTick
    /\ stage = NoStage
    /\ timer = NoTimer

\* The threaded program's variables while the timer-driven one runs.
ThParked ==
    /\ thFeedback = 0
    /\ thCtl = [feedback_value |-> 0, last_feedback_value |-> 0,
                start_delay |-> 0, control_name |-> "V"]
    /\ thClock = 0
    /\ thSupply = [last |-> <<"source:current", CURRENT_LIMIT>>]
    /\ thPc = "parked"
    /\ plot_window_open = FALSE
    /\ thLast = ThNoCall
    /\ thWr = 0
    /\ thHist = [k \in ThResults |-> 0]
    /\ thPlot = ThNoPlot

Init == hw = "bench" /\ DaqInit /\ ThParked

SetWorld(w) ==
    /\ results' = w.rs
    /\ instrument' = w.instrument
    /\ handles' = w.handles
    /\ supply' = w.supply

\* Writer(path, results).  An exception leaves no Writer and ends the stage.
NewWriter ==
    /\ lstate = "Build"
    /\ ~writer.exists
    /\ \E list \in ListsOf(hw) :
          \E o \in WriterAdd(hw, World, [NoWriter EXCEPT !.time = now], files,
                             "results", list) :
             /\ SetWorld(o.w)
             /\ writer' = IF o.w.raised # "none" THEN writer
                          ELSE [o.writer EXCEPT !.exists = TRUE]
             /\ files' = o.files
             /\ lstate' = IF o.w.raised # "none" THEN "Crashed" ELSE lstate
             /\ lastTick' = [NoTick EXCEPT !.kind = "add", !.cnt = o.w.cnt,
                                           !.failed = o.w.failed,
                                           !.calls = list,
                                           !.raised = o.w.raised]
    /\ UNCHANGED <<hw, controller, plotted, now, stage, timer, thVars>>

\* writer.add(path, results).
AddFile ==
    /\ lstate = "Build"
    /\ writer.exists
    /\ Len(writer.paths) <= MaxAdds
    /\ \E base \in BasePaths, list \in AddLists :
          \E o \in WriterAdd(hw, World, writer, files, base, list) :
             /\ SetWorld(o.w)
             /\ writer' = o.writer
             /\ files' = o.files
             /\ lstate' = IF o.w.raised # "none" THEN "Crashed" ELSE lstate
             /\ lastTick' = [NoTick EXCEPT !.kind = "add", !.cnt = o.w.cnt,
                                           !.failed = o.w.failed,
                                           !.calls = list,
                                           !.raised = o.w.raised]
    /\ UNCHANGED <<hw, controller, plotted, now, stage, timer, thVars>>

\* Controller(control_result, feedback_result, setpoint, gains, limits).
NewController ==
    /\ lstate = "Build"
    /\ writer.exists
    /\ ~controller.present
    /\ \E fb \in FeedbackResults :
          /\ \E k \in 1..Len(writer.results) : writer.results[k] = fb
          /\ controller' = [present |-> TRUE, control_result |-> Id("V"),
                         feedback_result |-> fb,
                         feedback_value |-> results[fb].value]
    /\ UNCHANGED <<hw, results, instrument, handles, supply, writer, files,
                   plotted, lstate, now, lastTick, stage, timer, thVars>>

\* Looper(writer, plotter, controller).
NewLooper ==
    /\ lstate = "Build"
    /\ writer.exists
    /\ lstate' = "Idle"
    /\ UNCHANGED <<hw, results, instrument, handles, supply, writer, files,
                   controller, plotted, now, lastTick, stage, timer, thVars>>

\* Looper.start(), to the point where the event loop runs.
LooperStart ==
    /\ lstate = "Idle"
    /\ SetWorld(LooperStartOpen(World, writer, controller))
    /\ lstate' = "Running"
    /\ UNCHANGED <<hw, writer, files, controller, plotted, now, lastTick, stage, timer, thVars>>

SetTick(kind, o) ==
    /\ SetWorld(o.w)
    /\ writer' = o.writer
    /\ files' = o.files
    /\ controller' = o.ctl
    /\ plotted' = o.plotted
    /\ now' = now + 1
    /\ lastTick' = [kind |-> kind, log |-> o.log, cnt |-> o.w.cnt,
                    calls |-> UpdateCalls(writer),
                    raised |-> o.w.raised,
                    before |-> [i \in Ids |-> results[i].history],
                    ctl |-> o.call,
                    failed |-> o.w.failed,
                    wrote |-> \A k \in 1..Len(writer.paths) :
                                 Len(o.files[writer.paths[k]])
                                     > Len(files[writer.paths[k]]),
                    last |-> supply.last,
                    values |-> [i \in Ids |-> results[i].value]]

\* The timer fires and there is no controller: Looper.plot().
Plot ==
    /\ lstate = "Running"
    /\ ~controller.present
    /\ now < TicksOf(hw)
    /\ \E o \in LooperPlot(hw, now + 1, World, writer, files, controller) :
          SetTick("plot", o)
    /\ UNCHANGED <<hw, lstate, stage, timer, thVars>>

\* The timer fires and there is a controller: Looper.plot_control().
PlotControl ==
    /\ lstate = "Running"
    /\ controller.present
    /\ now < TicksOf(hw)
    /\ \E o \in LooperPlotControl(hw, now + 1, World, writer, files, controller) :
          SetTick("plot_control", o)
    /\ UNCHANGED <<hw, lstate, stage, timer, thVars>>

\* All windows are closed: app.exec() returns, app.quit(), and the
\* controller, if any, is closed.  Looper.start() returns.
CloseAllWindows ==
    /\ lstate = "Running"
    /\ SetWorld(LooperStartClose(World, controller))
    /\ lstate' = "Stopped"
    /\ UNCHANGED <<hw, writer, files, controller, plotted, now, lastTick, stage, timer, thVars>>

Next ==
    \/ NewWriter
    \/ AddFile
    \/ NewController
    \/ NewLooper
    \/ LooperStart
    \/ Plot
    \/ PlotControl
    \/ CloseAllWindows

Spec == Init /\ [][Next]_vars

(***************************************************************************)
(* The specification of the end-to-end scenario: a Writer over the         *)
(* scenario's Results, a Looper without controller, simulated readings     *)
(* that never fail.                                                        *)
(***************************************************************************)
ScenarioInit == hw = "scenario" /\ DaqInit /\ ThParked

ScenarioNext ==
    \/ NewWriter
    \/ NewLooper
    \/ LooperStart
    \/ Plot
    \/ CloseAllWindows

SpecScenario == ScenarioInit /\ [][ScenarioNext]_vars

(***************************************************************************)
(* The specification of a PowerResult driven through its methods, in any   *)
(* order, as a stage or a test drives it.                                  *)
(***************************************************************************)
PowerInit == hw = "bench" /\ DaqInit /\ ThParked

\* What a method call leaves behind: its name, whether self.instrument was
\* set when it was called, and the exception it raised.
PowerCall(op, i, w) ==
    /\ SetWorld(w)
    /\ now' = now + 1
    /\ lastTick' = [NoTick EXCEPT
                       !.kind = op,
                       !.log = <<IF instrument[i] = 0 THEN "closed" ELSE "open">>,
                       !.cnt = w.cnt,
                       !.failed = w.failed,
                       !.raised = w.raised]
    /\ UNCHANGED <<hw, writer, files, controller, plotted, lstate, stage, timer, thVars>>

PrOpen ==
    /\ now < MaxPowerOps
    /\ \E k \in 1..Len(power_results) :
          PowerCall("open", power_results[k],
                    PowerResultOpen(World, power_results[k]))

PrClose ==
    /\ now < MaxPowerOps
    /\ \E k \in 1..Len(power_results) :
          PowerCall("close", power_results[k],
                    PowerResultClose(World, power_results[k]))

PrOneShot ==
    /\ now < MaxPowerOps
    /\ \E k \in 1..Len(power_results), inp \in QueryValues :
          PowerCall("one_shot", power_results[k],
                    PowerResultOneShot(World, power_results[k], inp))

PrUpdate ==
    /\ now < MaxPowerOps
    /\ \E k \in 1..Len(power_results), inp \in QueryValues :
          PowerCall("update", power_results[k],
                    PowerResultUpdate(World, power_results[k], inp))

PrWrite ==
    /\ now < MaxPowerOps
    /\ \E k \in 1..Len(power_results), cw \in ControlWrites :
          PowerCall("write", power_results[k],
                    PowerResultWrite(World, power_results[k], cw[1], cw[2]))

PowerNext ==
    \/ PrOpen
    \/ PrClose
    \/ PrOneShot
    \/ PrUpdate
    \/ PrWrite

SpecPower == PowerInit /\ [][PowerNext]_vars

(***************************************************************************)
(* The specification of a stage module being imported: its lookups by name *)
(* and, in the order of the module's statements, its Writer and its        *)
(* ResultGroup.                                                            *)
(***************************************************************************)
\* The stage modules by the order of their statements: boilerdaq.stages
\* builds its ResultGroup on import, before the stage run builds a Writer;
\* boilerdaq.stages.controlled builds its Writer first.
StageKinds == {"base", "controlled"}

\* Group dictionaries, as key and names in the dict's order; T9cal names no
\* Result.
GroupDicts ==
    { << [key |-> "base", names |-> <<"T0cal">>],
         [key |-> "post", names |-> <<"T1cal">>] >>,
      << [key |-> "base", names |-> <<"T0cal">>],
         [key |-> "post", names |-> <<"T1cal", "T9cal">>] >>,
      << [key |-> "base", names |-> <<"T0">>] >> }

\* The list a stage module groups.
GroupedResults(kind) ==
    IF kind = "base" THEN BASE_RESULTS ELSE CONTROLLED_RESULTS

\* Names and lists get_result() is called with.
LookupNames == {"T0", "T1", "P", "V", "T0cal", "T_s", "T9cal"}
LookupLists == {<<>>, READINGS, SCALED_RESULTS, BASE_RESULTS, CONTROLLED_RESULTS}

StageInit == hw = "bench" /\ DaqInit /\ ThParked

\* The interpreter starts to import one of the stage modules.
StageImport ==
    /\ stage.kind = "none"
    /\ \E kind \in StageKinds, g \in GroupDicts :
          stage' = [stage EXCEPT !.kind = kind, !.group_dict = g]
    /\ UNCHANGED <<hw, results, instrument, handles, supply, writer, files,
                   controller, plotted, lstate, now, lastTick, timer, thVars>>

\* get_result(name, results), as the constructors and the stages call it.
StageLookup ==
    /\ stage.kind # "none"
    /\ stage.pc # "failed"
    /\ \E name \in LookupNames, rlist \in LookupLists :
          LET r == get_result(name, rlist)
          IN  stage' = [stage EXCEPT !.lookup =
                          << [name |-> name, rlist |-> rlist, found |-> r,
                              raised |-> IF r = 0 THEN "ValueError"
                                         ELSE "none"] >>]
    /\ UNCHANGED <<hw, results, instrument, handles, supply, writer, files,
                   controller, plotted, lstate, now, lastTick, timer, thVars>>

\* writer = Writer(RESULTS_PATH, ...), where the module's statements have it.
StageWriter ==
    /\ stage.kind # "none"
    /\ stage.pc = (IF stage.kind = "base" THEN "grouped" ELSE "import")
    /\ NewWriter

\* group = ResultGroup(GROUP_DICT, ...), where the module's statements have it.
StageGroup ==
    /\ stage.kind # "none"
    /\ stage.pc = "import"
    /\ lstate = "Build"
    /\ stage.kind = "controlled" => writer.exists
    /\ LET g == ResultGroup(stage.group_dict, GroupedResults(stage.kind))
       IN  stage' = [stage EXCEPT
                        !.pc = IF g.raised = "none" THEN "grouped" ELSE "failed",
                        !.group = g.data,
                        !.raised = g.raised]
    /\ UNCHANGED <<hw, results, instrument, handles, supply, writer, files,
                   controller, plotted, lstate, now, lastTick, timer, thVars>>

StageNext ==
    \/ StageImport
    \/ StageLookup
    \/ StageWriter
    \/ StageGroup

SpecStage == StageInit /\ [][StageNext]_vars

(***************************************************************************)
(* The specification of the event loop of Looper.start(): the QTimer       *)
(* elapses on its own, app.exec() delivers the timeout to the slot, and    *)
(* the slot runs its three calls one after the other.                      *)
(***************************************************************************)
TimerInit == hw = "scenario" /\ DaqInit /\ ThParked

\* The position of the slot activation that is running.
TopSlot == timer.slots[Len(timer.slots)]

\* The running slot activation moves to position `pos`, or returns.
SlotGoto(pos) ==
    [timer EXCEPT !.slots = [@ EXCEPT ![Len(@)] = pos]]
SlotReturn ==
    [timer EXCEPT !.slots = SubSeq(@, 1, Len(@) - 1)]

\* A dispatch that does not wait for the running slot to return.
TimerDispatchNested ==
    /\ lstate = "Running"
    /\ timer.due
    /\ timer' = [timer EXCEPT !.due = FALSE, !.slots = Append(@, "plotter")]
    /\ UNCHANGED <<hw, results, instrument, handles, supply, writer, files,
                   controller, plotted, lstate, now, lastTick, stage, thVars>>

\* The interval of timer.start(POLLING_INTERVAL) elapses: a timeout is
\* pending, one at most, whatever the main thread is doing.
TimerElapse ==
    /\ lstate = "Running"
    /\ ~timer.due
    /\ now + Len(timer.slots) < MaxTimerTicks
    /\ timer' = [timer EXCEPT !.due = TRUE, !.late = timer.slots # <<>>]
    /\ UNCHANGED <<hw, results, instrument, handles, supply, writer, files,
                   controller, plotted, lstate, now, lastTick, stage, thVars>>

\* app.exec() takes the pending timeout and calls the connected slot.  The
\* event loop runs on the main thread and no call of the slot re-enters
\* it, so it takes an event only when no slot is running.
TimerDispatch ==
    /\ lstate = "Running"
    /\ timer.due
    /\ timer.slots = <<>>
    /\ timer' = [timer EXCEPT !.due = FALSE, !.slots = Append(@, "plotter")]
    /\ UNCHANGED <<hw, results, instrument, handles, supply, writer, files,
                   controller, plotted, lstate, now, lastTick, stage, thVars>>

\* self.plotter.update(), the first call of plot() and plot_control().
SlotPlotter ==
    /\ timer.slots # <<>>
    /\ TopSlot = "plotter"
    /\ plotted' = PlotterUpdate(World)
    /\ timer' = SlotGoto("writer")
    /\ UNCHANGED <<hw, results, instrument, handles, supply, writer, files,
                   controller, lstate, now, lastTick, stage, thVars>>

\* self.writer.update(): every Result is updated and the rows are appended.
\* An exception ends the slot; plot() ends after this call.
SlotWriter ==
    /\ timer.slots # <<>>
    /\ TopSlot = "writer"
    /\ \E o \in WriterUpdate(hw, now + 1, World, writer, files) :
          /\ SetWorld(o.w)
          /\ writer' = o.writer
          /\ files' = o.files
          /\ timer' = IF o.w.raised = "none" /\ controller.present
                      THEN SlotGoto("controller") ELSE SlotReturn
    /\ now' = now + 1
    /\ UNCHANGED <<hw, controller, plotted, lstate, lastTick, stage, thVars>>

\* self.controller.update(), the last call of plot_control().
SlotController ==
    /\ timer.slots # <<>>
    /\ TopSlot = "controller"
    /\ \E cw \in ControlWrites :
          LET c == ControllerUpdate(World, controller, cw[1], cw[2])
          IN  /\ SetWorld(c.w)
              /\ controller' = c.ctl
    /\ timer' = SlotReturn
    /\ UNCHANGED <<hw, writer, files, plotted, lstate, now, lastTick, stage, thVars>>

\* The last window is closed: the event loop takes the close event like any
\* other, when no slot is running.
TimerClose ==
    /\ timer.slots = <<>>
    /\ CloseAllWindows

TimerNext ==
    \/ NewWriter
    \/ NewController
    \/ NewLooper
    \/ LooperStart
    \/ TimerElapse
    \/ TimerDispatch
    \/ SlotPlotter
    \/ SlotWriter
    \/ SlotController
    \/ TimerClose

SpecTimer == TimerInit /\ [][TimerNext]_vars

(***************************************************************************)
(* The specification of single Results: update() is called on one Result   *)
(* at a time, in any order, and the Plotter is refreshed in between.       *)
(***************************************************************************)
UnitInit == hw = "bench" /\ DaqInit /\ ThParked

\* The Results whose update() is called: two Readings and what is derived
\* from them.
UnitResults ==
    {Id("T0"), Id("T1"), Id("T0cal"), Id("T1cal"), Id("Q01"), Id("Q10"),
     Id("T2ext")}

\* What a call leaves behind: the Results as they were when it was made.
UnitCall(kind, calls, w) ==
    [NoTick EXCEPT !.kind = kind, !.calls = calls, !.cnt = w.cnt,
                   !.raised = w.raised, !.failed = w.failed,
                   !.before = [i \in Ids |-> results[i].history],
                   !.values = [i \in Ids |-> results[i].value]]

\* result.update() of one Result.
UnitUpdate ==
    /\ now < MaxUnitOps
    /\ \E i \in UnitResults :
          \E inp \in Answers(hw, i, now + 1) :
             LET w == Update(World, i, inp)
             IN  /\ SetWorld(w)
                 /\ lastTick' = UnitCall("update", <<i>>, w)
    /\ now' = now + 1
    /\ UNCHANGED <<hw, writer, files, controller, plotted, lstate, stage, timer,
                   thVars>>

\* plotter.update().
UnitPlot ==
    /\ now < MaxUnitOps
    /\ plotted' = PlotterUpdate(World)
    /\ lastTick' = UnitCall("plotter", <<>>, World)
    /\ now' = now + 1
    /\ UNCHANGED <<hw, results, instrument, handles, supply, writer, files,
                   controller, lstate, stage, timer, thVars>>

UnitNext ==
    \/ UnitUpdate
    \/ UnitPlot

SpecUnit == UnitInit /\ [][UnitNext]_vars

(***************************************************************************)
(* The specification of the parameter loaders: a CSV file of up to MaxRows *)
(* data rows is handed to one of the get() class methods.                  *)
(***************************************************************************)
\* The text of a cell, and what int() and float() make of it: "2.0" is a
\* float but no int, "x" and the empty cell are neither.
Cells == {"1", "2", "2.0", "x", ""}
ParseInt(cell) ==
    IF cell = "1" THEN 1 ELSE IF cell = "2" THEN 2 ELSE Failure
ParseFloat(cell) ==
    IF cell = "1" THEN 1 ELSE IF cell \in {"2", "2.0"} THEN 2 ELSE Failure

Loaders == {"Sensor", "ScaledParam", "FluxParam", "ExtrapParam", "PowerParam"}

\* The rows DictReader yields: the name and the two numeric cells of the
\* loader's class (board and channel, scale and offset, conductivity and
\* length); PowerParam has no numeric field and ignores them.
FileRows == [name : {"A", "B"}, first : Cells, second : {"1", "x"}]

RECURSIVE SeqsOver(_, _)
SeqsOver(S, n) ==
    IF n = 0 THEN {<<>>}
    ELSE SeqsOver(S, n - 1)
            \cup {Append(q, x) : q \in {r \in SeqsOver(S, n - 1) : Len(r) = n - 1},
                                 x \in S}

\* cls(row[...], ...): the record of a row, as a sequence of one, or the
\* empty sequence when a conversion raises ValueError.
LoadRow(loader, row) ==
    LET a == IF loader = "Sensor" THEN ParseInt(row.first)
             ELSE ParseFloat(row.first)
        b == IF loader = "Sensor" THEN ParseInt(row.second)
             ELSE ParseFloat(row.second)
    IN  IF loader = "PowerParam" THEN << [name |-> row.name] >>
        ELSE IF a = Failure \/ b = Failure THEN <<>>
        ELSE << [name |-> row.name, first |-> a, second |-> b] >>

\* A loader that leaves out the rows it cannot convert.
RECURSIVE LoadSkipping(_, _, _, _)
LoadSkipping(loader, rows, k, acc) ==
    IF k > Len(rows) THEN [raised |-> "none", records |-> acc]
    ELSE LET rec == LoadRow(loader, rows[k])
         IN  LoadSkipping(loader, rows, k + 1,
                          acc \o rec)

\* list.extend(cls(...) for row in reader): the rows are converted in the
\* file's order; an exception ends get(), and the list, a local, is lost.
RECURSIVE Load(_, _, _, _)
Load(loader, rows, k, acc) ==
    IF k > Len(rows) THEN [raised |-> "none", records |-> acc]
    ELSE LET rec == LoadRow(loader, rows[k])
         IN  IF rec = <<>> THEN [raised |-> "ValueError", records |-> <<>>]
             ELSE Load(loader, rows, k + 1, acc \o rec)

LoadInit == hw = "bench" /\ DaqInit /\ ThParked

\* Sensor.get(path), ScaledParam.get(path), ... on a file.
LoadFile ==
    /\ stage.load = <<>>
    /\ \E loader \in Loaders, rows \in SeqsOver(FileRows, MaxRows) :
          LET r == Load(loader, rows, 1, <<>>)
          IN  stage' = [stage EXCEPT !.load =
                          << [loader |-> loader, rows |-> rows,
                              raised |-> r.raised, records |-> r.records] >>]
    /\ UNCHANGED <<hw, results, instrument, handles, supply, writer, files,
                   controller, plotted, lstate, now, lastTick, timer, thVars>>

\* The stage goes on to the next parameter file.
LoadNext ==
    /\ stage.load # <<>>
    /\ stage' = [stage EXCEPT !.load = <<>>]
    /\ UNCHANGED <<hw, results, instrument, handles, supply, writer, files,
                   controller, plotted, lstate, now, lastTick, timer, thVars>>

LoaderNext ==
    \/ LoadFile
    \/ LoadNext

SpecLoad == LoadInit /\ [][LoaderNext]_vars

(***************************************************************************)
(* The specification of a controlled stage that registers its Results in   *)
(* an order of its own: importing boilerdaq.stages.controlled has built a  *)
(* Writer over CONTROLLED_RESULTS, then the stage builds the Writer of its *)
(* Looper.                                                                 *)
(***************************************************************************)
OrderInit == hw = "order" /\ DaqInit /\ ThParked

\* import boilerdaq.stages.controlled: writer = Writer(RESULTS_PATH,
\* CONTROLLED_RESULTS) updates every Result once and creates a file.  The
\* Writer object stays with the module; the Looper gets another one.
ImportControlled ==
    /\ lstate = "Build"
    /\ stage.kind = "none"
    /\ \E o \in WriterAdd(hw, World, [NoWriter EXCEPT !.time = now], files,
                          "results", CONTROLLED_RESULTS) :
          /\ SetWorld(o.w)
          /\ files' = o.files
          /\ lstate' = IF o.w.raised # "none" THEN "Crashed" ELSE lstate
          /\ lastTick' = [NoTick EXCEPT !.kind = "add", !.cnt = o.w.cnt,
                                        !.failed = o.w.failed,
                                        !.calls = CONTROLLED_RESULTS,
                                        !.raised = o.w.raised]
    /\ stage' = [stage EXCEPT !.kind = "controlled"]
    /\ UNCHANGED <<hw, writer, controller, plotted, now, timer, thVars>>

\* Writer(RESULTS_PATH, results) of the stage's looper().
OrderWriter ==
    /\ stage.kind = "controlled"
    /\ NewWriter

OrderNext ==
    \/ ImportControlled
    \/ OrderWriter
    \/ NewLooper
    \/ LooperStart
    \/ Plot
    \/ CloseAllWindows

SpecOrder == OrderInit /\ [][OrderNext]_vars

(***************************************************************************)
(* The specification of a Writer driven through its methods: built, then   *)
(* add() and update() in any order.                                        *)
(***************************************************************************)
WriterInit == hw = "bench" /\ DaqInit /\ ThParked

\* writer.update(), called directly.
WriterUpdateCall ==
    /\ lstate = "Build"
    /\ writer.exists
    /\ now < TicksOf(hw)
    /\ \E o \in WriterUpdate(hw, now + 1, World, writer, files) :
          SetTick("writer_update",
                  [w |-> o.w, writer |-> o.writer, files |-> o.files,
                   ctl |-> controller, plotted |-> plotted,
                   log |-> <<"write">>, call |-> NoCtlCall])
    /\ UNCHANGED <<hw, lstate, stage, timer, thVars>>

WriterNext ==
    \/ NewWriter
    \/ AddFile
    \/ WriterUpdateCall

SpecWriter == WriterInit /\ [][WriterNext]_vars

\* The timer-driven program's variables while the threaded one runs.
ThreadedInit == hw = "bench" /\ DaqInit /\ ThInit

SpecThreaded == ThreadedInit /\ [][ThNext]_vars

(***************************************************************************)
(*                            THE PROPERTIES                               *)
(***************************************************************************)
Last(h) == h[Len(h)]

\* The last n entries of a sequence.
LastN(h, n) == IF Len(h) <= n THEN h ELSE SubSeq(h, Len(h) - n + 1, Len(h))

Ticked == lastTick.kind \in {"plot", "plot_control"}

\* Result i is registered with the Writer, for one file or more.
Registered(i) == \E k \in 1..Len(writer.results) : writer.results[k] = i

C2_MisreadGuard ==
    (/\ lastTick.ctl.called
     /\ IsNum(lastTick.ctl.fv)
     /\ IsNum(lastTick.ctl.prev)
     /\ (lastTick.ctl.fv < 0
         \/ Abs(lastTick.ctl.fv - lastTick.ctl.prev) > 10))
    => (/\ lastTick.ctl.writes = <<0>>
        /\ lastTick.ctl.raised # "none")

\* C3: once Controller.update() has aborted, the last command that reached
\* the instrument is the zero command, also when the abort's own write
\* failed with an instrument I/O error.
C3_ZeroAfterAbort ==
    thPc = "dead" => thSupply.last = WriteCommand(thCtl.control_name, 0)

\* C4: when Looper.start() has returned, every instrument handle opened
\* during the run is closed and its output disarmed.
C4_HandlesReleased ==
    lstate = "Stopped"
    => \A h \in 1..Len(handles) : ~handles[h].open /\ handles[h].disarmed

\* C5: every tick refreshes the plot from the histories buffered before the
\* tick, then runs Writer.update(), then runs Controller.update() exactly
\* when a controller was given.
C5_TickOrder ==
    Ticked
    => (/\ plotted = lastTick.before
        /\ lastTick.log = IF controller.present
                          THEN <<"plot", "write", "control">>
                          ELSE <<"plot", "write">>)

\* C6: one Writer.update() calls update() exactly once on every registered
\* Result, and on no other, also when a Result is registered for several
\* files.
C6_EachResultOnce ==
    (Ticked /\ lastTick.raised = "none")
    => \A i \in Ids : lastTick.cnt[i] = IF Registered(i) THEN 1 ELSE 0

\* C7: for every Result, of every variant, a Result whose update() has
\* returned has a history, and the value of a Result with a history is the
\* last element of that history; a PowerResult whose query failed is no
\* exception.
C7_ValueIsLastOfHistory ==
    \A i \in Ids :
        /\ lastTick.cnt[i] > 0 => results[i].history # <<>>
        /\ results[i].history # <<>>
               => results[i].value = Last(results[i].history)

\* A tick in which one Result of each variant has been updated, the
\* PowerResult among them with a query that failed at every call so far: its
\* value is still the one it was built with.
C7_Witness ==
    /\ Ticked
    /\ \A n \in {"V", "T0", "T0cal", "Q01", "T2ext", "T_s"} :
          lastTick.cnt[Id(n)] > 0
    /\ results[Id("V")].value = None
    /\ results[Id("V")].history # <<>>

\* C8: a history never holds more than PLOT_HISTORY_LENGTH entries; a Result
\* updated in a tick has exactly that many, and when it was updated once
\* they are the last PLOT_HISTORY_LENGTH of the entries it had before the
\* tick followed by the value appended, in that order.
C8_RingBuffer ==
    \A i \in Ids :
        /\ Len(results[i].history) <= PLOT_HISTORY_LENGTH
        /\ (Ticked /\ lastTick.cnt[i] > 0)
               => Len(results[i].history) = PLOT_HISTORY_LENGTH
        /\ (Ticked /\ lastTick.cnt[i] = 1)
               => results[i].history =
                      LastN(Append(lastTick.before[i], results[i].value),
                            PLOT_HISTORY_LENGTH)

\* The second tick of a run: the Reading T0 has had more values appended
\* than its history holds, and the history's entries differ.
C8_Witness ==
    /\ Ticked
    /\ now = 2
    /\ lastTick.cnt[Id("T0")] = 1
    /\ Len(lastTick.before[Id("T0")]) = PLOT_HISTORY_LENGTH
    /\ lastTick.before[Id("T0")][1] # lastTick.before[Id("T0")][2]
    /\ results[Id("T0")].history[1] # Last(results[Id("T0")].history)

\* C9: in every file the header is "time" and then the labels of the file's
\* Results in registration order, and the newest data row holds, in column
\* i, the value of the i-th Result: after Writer.add() for the file just
\* added, after Writer.update() for every file.  (Files whose path is
\* registered once.)
C9_ColumnsFollowResults ==
    (/\ writer.exists
     /\ lastTick.raised = "none"
     /\ lastTick.kind \in {"add", "plot", "plot_control"})
    => \A k \in 1..Len(writer.paths) :
          (/\ lastTick.kind = "add" => k = Len(writer.paths)
           /\ \A j \in 1..Len(writer.paths) :
                 writer.paths[j] = writer.paths[k] => j = k)
          => LET f == files[writer.paths[k]]
                 g == writer.result_groups[k]
             IN  /\ Len(f) >= 2
                 /\ f[1] = <<(<<"time">>)>> \o [i \in 1..Len(g) |-> Label(g[i])]
                 /\ Len(Last(f)) = Len(g) + 1
                 /\ \A i \in 1..Len(g) : Last(f)[i + 1] = results[g[i]].value

IsPrefix(h, g) == Len(h) <= Len(g) /\ SubSeq(g, 1, Len(h)) = h

\* C11: no step removes rows from a registered file: the rows a registered
\* file holds before a step are the first rows it holds after the step, also
\* when the step is an add() with the base path of a registered file.
C11_NeverTruncated ==
    [][\A k \in 1..Len(writer.paths) :
          IsPrefix(files[writer.paths[k]], files'[writer.paths[k]])]_vars

\* C12: close() on a PowerResult whose instrument is None, because it was
\* never opened or is already closed, raises nothing, sends no command on
\* any handle and changes nothing: the PowerResult stays closed.  So a
\* second close() after open() adds nothing to the first.
C12_CloseIdempotent ==
    [][(lastTick'.kind = "close" /\ instrument[Id("V")] = 0)
          => (/\ lastTick'.raised = "none"
              /\ handles' = handles
              /\ supply' = supply
              /\ instrument' = instrument
              /\ results' = results)]_vars

\* close() has been called on a PowerResult that had been opened and closed
\* before.
C12_Witness ==
    /\ lastTick.kind = "close"
    /\ lastTick.log = <<"closed">>
    /\ lastTick.raised = "none"
    /\ Len(handles) >= 1
    /\ \A h \in 1..Len(handles) : ~handles[h].open
    /\ instrument[Id("V")] = 0

\* C13: the commands every handle has been sent begin with "output:state
\* on" and the current limit; a handle is released only right after
\* "output:state off", and nothing is sent on it afterwards.
C13_Protocol ==
    \A h \in 1..Len(handles) :
        LET l == handles[h].log
        IN  /\ Len(l) >= 2
            /\ l[1] = <<"output:state", 1>>
            /\ l[2] = <<"source:current", CURRENT_LIMIT>>
            /\ \A k \in 1..Len(l) :
                  l[k] = <<"close">>
                      => (k = Len(l) /\ l[k - 1] = <<"output:state", 0>>)
            /\ handles[h].open <=> l[Len(l)] # <<"close">>

\* A handle that has been opened, queried, written to and closed.
C13_Witness ==
    \E h \in 1..Len(handles) :
        LET l == handles[h].log
        IN  /\ ~handles[h].open
            /\ \E k \in 1..Len(l) : l[k] = <<"measure:voltage?">>
            /\ \E k \in 1..Len(l) : l[k] = <<"source:voltage", 30>>
            /\ l[Len(l)] = <<"close">>

\* C14: a tick in which the read of a Reading fails is not aborted: every
\* registered Result, the failing Reading included, is updated in the tick
\* and the tick's CSV rows are written.
C14_ReadFailureTolerated ==
    (Ticked /\ \E i \in lastTick.failed : Source[i].kind = "Reading")
    => (/\ \A i \in Ids : Registered(i) => lastTick.cnt[i] >= 1
        /\ lastTick.wrote)

\* C15: no VisaIOError leaves a tick.  A PowerResult whose one query of the
\* tick failed has the value it had before the tick, and has appended it; a
\* control write that the instrument refused leaves the instrument with the
\* command it had before the tick.
C15_InstrumentErrorTolerated ==
    /\ lastTick.raised # "VisaIOError"
    /\ lastTick.ctl.raised # "VisaIOError"
    /\ \A i \in Ids :
          (/\ Ticked
           /\ i \in lastTick.failed
           /\ Source[i].kind = "PowerResult"
           /\ lastTick.cnt[i] = 1)
          => (/\ results[i].value = Last(lastTick.before[i])
              /\ results[i].value = Last(results[i].history))
    /\ (/\ Ticked
        /\ lstate = "Running"
        /\ lastTick.ctl.writes # <<>>
        /\ lastTick.ctl.raised = "none"
        /\ ~lastTick.ctl.delivered)
       => (supply.last = lastTick.last /\ lastTick.raised = "none")

\* The second tick of a run, Looper still running: the query of V has
\* failed, V keeps the voltage measured earlier, and the control write has
\* been refused.
C15_Witness ==
    /\ Ticked
    /\ lstate = "Running"
    /\ now = 2
    /\ Id("V") \in lastTick.failed
    /\ lastTick.cnt[Id("V")] = 1
    /\ results[Id("V")].value = 3
    /\ lastTick.ctl.writes # <<>>
    /\ ~lastTick.ctl.delivered
    /\ lastTick.raised = "none"

C17_FirstMatch ==
    \A c \in 1..Len(stage.lookup) :
       LET l == stage.lookup[c]
           hits == {k \in 1..Len(l.rlist) : Source[l.rlist[k]].name = l.name}
       IN  IF hits = {}
           THEN l.raised = "ValueError" /\ l.found = 0
           ELSE /\ l.raised = "none"
                /\ \E k \in hits : /\ l.found = l.rlist[k]
                                    /\ \A j \in 1..(k - 1) : j \notin hits

C17_Witness ==
    \E c \in 1..Len(stage.lookup) :
       LET l == stage.lookup[c]
           hits == {k \in 1..Len(l.rlist) : Source[l.rlist[k]].name = l.name}
       IN  /\ Cardinality(hits) >= 2
           /\ \E k \in hits : l.found = l.rlist[k] /\ \A j \in hits : k <= j

\* C18: a ResultGroup that names an absent Result leaves no group, and when
\* it fails no Result has been updated, no instrument opened and no file
\* written.
C18_GroupFailsFirst ==
    stage.pc = "failed" =>
       /\ stage.group = <<>>
       /\ \A i \in Ids : results[i].value = None /\ results[i].history = <<>>
       /\ handles = <<>>
       /\ \A p \in Paths : files[p] = <<>>

C20_PlotNeverRacesWriter ==
    /\ ~(thPlot.pc # 0 /\ thPc = "updating")
    /\ ~thPlot.torn

C22_WithinLimits ==
    (Ticked /\ lastTick.ctl.called)
    => \A k \in 1..Len(lastTick.ctl.writes) :
          /\ IsNum(lastTick.ctl.writes[k])
          /\ OUTPUT_LIMITS[1] <= lastTick.ctl.writes[k]
          /\ lastTick.ctl.writes[k] <= OUTPUT_LIMITS[2]

\* The Result whose update() the latest call was, 0 when it was no update().
Updated == IF lastTick.kind = "update" THEN lastTick.calls[1] ELSE 0

\* An update() of a Result of class `kind` has returned.
Returned(kind) ==
    /\ Updated # 0
    /\ Source[Updated].kind = kind
    /\ lastTick.raised = "none"

\* C23: when ScaledResult.update() has returned, the value is the value the
\* unscaled Result had at the call, times scale plus offset; the unscaled
\* Result is the first Reading named unscaled_sensor.
C23_ScaledValue ==
    Returned("ScaledResult") =>
       LET i == Updated
           u == get_result(Source[i].unscaled_sensor, READINGS)
       IN  /\ u # 0
           /\ IsNum(lastTick.values[u])
           /\ results[i].value
                 = lastTick.values[u] * Source[i].scale + Source[i].offset

C23_Witness ==
    /\ Returned("ScaledResult")
    /\ Source[Updated].offset # 0
    /\ lastTick.values[Id("T0")] = 12
    /\ results[Updated].value = 25

\* C24: when Flux.update() has returned, the value is conductivity / length
\* times (origin value - distant value), the values being those at the
\* call; the Flux with the two sensors swapped gets the negated value.
C24_FluxValue ==
    Returned("Flux") =>
       LET i == Updated
           o == lastTick.values[get_result(Source[i].origin_sensor, SCALED_RESULTS)]
           d == lastTick.values[get_result(Source[i].distant_sensor, SCALED_RESULTS)]
           a == lastTick.values[Id("T0cal")]
           b == lastTick.values[Id("T1cal")]
       IN  /\ results[i].value
                 = (Source[i].conductivity \div Source[i].length) * (o - d)
           /\ i = Id("Q10")
                 => results[i].value
                       = 0 - (Source[Id("Q01")].conductivity
                                 \div Source[Id("Q01")].length) * (a - b)

C24_Witness ==
    /\ Returned("Flux")
    /\ Updated = Id("Q10")
    /\ results[Id("Q10")].value = 0 - 40
    /\ results[Id("Q01")].value = 40

C30_UpdateFrame ==
    /\ [][(/\ lastTick'.kind = "update"
           /\ Source[lastTick'.calls[1]].kind
                 \in {"ScaledResult", "Flux", "ExtrapResult"})
          => /\ \A j \in Ids \ {lastTick'.calls[1]} : results'[j] = results[j]
             /\ UNCHANGED <<instrument, handles, supply, files, plotted,
                            writer, controller>>]_vars
    /\ [][lastTick'.kind = "plotter" => results' = results]_vars

\* An update() of a derived Result that did change its own value, followed
\* by nothing else, with the upstream Result holding another value.
C30_Witness ==
    /\ Returned("ScaledResult")
    /\ results[Updated].value # lastTick.values[Updated]
    /\ results[Id("T0")].value = lastTick.values[Id("T0")]
    /\ results[Id("T0")].value # results[Updated].value
    /\ plotted # [i \in Ids |-> <<>>]

\* The numeric cells of a row convert under the loader's conversions.
Parses(loader, row) ==
    \/ loader = "PowerParam"
    \/ /\ loader = "Sensor"
       /\ ParseInt(row.first) # Failure /\ ParseInt(row.second) # Failure
    \/ /\ loader \notin {"PowerParam", "Sensor"}
       /\ ParseFloat(row.first) # Failure /\ ParseFloat(row.second) # Failure

\* C26: a loader returns one record per data row, in the file's order, with
\* the numeric fields converted; when a numeric field of any row does not
\* convert, the load raises and returns no list.
C26_LoadAllOrNothing ==
    \A c \in 1..Len(stage.load) :
       LET l == stage.load[c]
       IN  IF \A k \in 1..Len(l.rows) : Parses(l.loader, l.rows[k])
           THEN /\ l.raised = "none"
                /\ Len(l.records) = Len(l.rows)
                /\ \A k \in 1..Len(l.rows) :
                      /\ l.records[k].name = l.rows[k].name
                      /\ l.loader # "PowerParam"
                            => /\ IsNum(l.records[k].first)
                               /\ IsNum(l.records[k].second)
           ELSE /\ l.raised = "ValueError"
                /\ l.records = <<>>

\* A file whose first row converts and whose second row does not.
C26_Witness ==
    \E c \in 1..Len(stage.load) :
       LET l == stage.load[c]
       IN  /\ l.loader = "Sensor"
           /\ Len(l.rows) = 2
           /\ Parses(l.loader, l.rows[1])
           /\ l.rows[2].first = "2.0"
           /\ l.raised = "ValueError"
           /\ l.records = <<>>

\* C27: after a tick whose Writer.update() has returned, every registered
\* ScaledResult holds the value computed from the value its unscaled Result
\* took in that tick, in whatever order the two were registered.
C27_FreshUpstream ==
    (Ticked /\ lastTick.raised = "none")
    => \A i \in Ids :
          (/\ Registered(i)
           /\ Source[i].kind = "ScaledResult"
           /\ Registered(unscaled_result(i))
           /\ lastTick.cnt[unscaled_result(i)] = 1)
          => results[i].value
                = results[unscaled_result(i)].value * Source[i].scale
                     + Source[i].offset

\* C28: in every tick of a Looper with a controller, Controller.update()
\* runs and issues exactly one write to the control Result, computed from
\* the value the feedback Result took in Writer.update() of that tick.
C28_OneWritePerTick ==
    (Ticked /\ controller.present)
    => /\ lastTick.ctl.called
       /\ Len(lastTick.ctl.writes) = 1
       /\ lastTick.cnt[controller.feedback_result] >= 1
       /\ lastTick.ctl.fv = results[controller.feedback_result].value

\* C29: no tick ends in a not-found error: the upstream Results were
\* resolved when the Results were built, and between Looper.start() and
\* its return no update() fails to find a Result by name.
C29_NoLookupInTick ==
    /\ [](Ticked => lastTick.raised # "ValueError")
    /\ [][lstate = "Running" => stage' = stage]_vars

\* A tick in which a Result of every derived class was updated and the fit
\* did not converge.
C29_Witness ==
    /\ Ticked
    /\ lastTick.raised = "none"
    /\ \A n \in {"T0cal", "T1cal", "Q01", "T2ext", "T_s"} :
          lastTick.cnt[Id(n)] >= 1
    /\ results[Id("T_s")].value = NaN
    /\ controller.present

\* C31: an add() made after the Writer has been updated registers the new
\* pair like any other add(): it raises nothing and leaves the new file
\* with its header and first data row.
C31_AddAfterUpdate ==
    [][(/\ lastTick'.kind = "add"
        /\ writer.exists
        /\ writer.time_is_str)
       => (/\ lastTick'.raised = "none"
           /\ Len(writer'.paths) = Len(writer.paths) + 1
           /\ Len(files'[writer'.paths[Len(writer'.paths)]]) = 2)]_vars

\* The list of `n` copies of v.
Copies(v, n) == [k \in 1..n |-> v]

\* The latest call was an add() that returned, and nothing has been
\* started since.
Added ==
    /\ lastTick.kind = "add"
    /\ lastTick.raised = "none"
    /\ writer.exists
    /\ lstate = "Build"

\* What add() leaves of the Results of its list: each updated once, its
\* history full of its value, each PowerResult closed with the output off.
AddedResults ==
    \A k \in 1..Len(lastTick.calls) :
       LET i == lastTick.calls[k]
       IN  /\ lastTick.cnt[i] = 1
           /\ results[i].history = Copies(results[i].value, PLOT_HISTORY_LENGTH)
           /\ Source[i].kind = "PowerResult"
                 => instrument[i] = 0 /\ supply.output = "off"

\* C32: when add() has returned, every Result of the added list has been
\* updated once, its history holds PLOT_HISTORY_LENGTH copies of its value,
\* every PowerResult of the list is closed with the output off, and the
\* first data row of the new file holds the time and those values in the
\* order of the list.
C32_AddLeavesCurrentValues ==
    Added =>
       /\ AddedResults
       /\ files[writer.paths[Len(writer.paths)]][2]
             = <<writer.time>> \o Values(World, lastTick.calls)

\* C33: between Looper.start() and its return every query and every write
\* goes to an open instrument: no tick fails for a PowerResult without
\* instrument, no handle gets a command after its close, and once start()
\* has returned no handle gets anything more.
C33_TicksOnOpenInstruments ==
    /\ [](Ticked => lastTick.raised # "AttributeError")
    /\ [](\A h \in 1..Len(handles) :
             \A k \in 1..(Len(handles[h].log) - 1) :
                handles[h].log[k] # <<"close">>)
    /\ [][lstate = "Stopped" => handles' = handles]_vars
    /\ [][lastTick'.kind \in {"plot", "plot_control"} /\ lastTick' # lastTick
             => lstate = "Running"]_vars

\* A tick in which the power supply was queried by Writer.update() and
\* written by Controller.update(), through an open handle.
C33_Witness ==
    /\ Ticked
    /\ controller.present
    /\ lastTick.cnt[Id("V")] >= 1
    /\ lastTick.ctl.delivered
    /\ instrument[Id("V")] # 0
    /\ handles[instrument[Id("V")]].open
    /\ \E k \in 1..Len(handles[instrument[Id("V")]].log) :
          handles[instrument[Id("V")]].log[k] = <<"measure:voltage?">>

\* The steps of the write/control thread.
ThThreadStep ==
    \/ ThLoopCheck
    \/ ThWriterUpdate
    \/ ThResultUpdate
    \/ ThControllerStep

\* The threaded Looper without the plot timer: start(), the write/control
\* thread and the closing of the window.
ThLoopNext ==
    \/ ThLooperStart
    \/ ThLoopCheck
    \/ ThWriterUpdate
    \/ ThResultUpdate
    \/ ThControllerStep
    \/ ThCloseWindow

\* The thread is a plain (non-daemon) Thread that nothing holds back: it
\* keeps being scheduled while it has a step to take.
SpecThreadedLive == ThreadedInit /\ [][ThLoopNext]_vars /\ WF_vars(ThThreadStep)

\* How far the thread is through one pass of write_control_loop.
ThRank(pc) ==
    CASE pc = "write" -> 1
      [] pc = "updating" -> 2
      [] pc = "control" -> 3
      [] pc = "check" -> 4
      [] OTHER -> 5

\* start() has cleared the flag after exec_() returned.
ThClosed == thPc # "idle" /\ ~plot_window_open

\* The thread is out of its loop: the test failed, or an exception ended it.
ThLeft == thPc \in {"done", "dead"}

\* C34: once the flag plot_window_open is cleared it stays cleared, the loop
\* test never passes again (no tick starts), the thread only moves forward
\* through the pass it was in (so at most one more Writer.update() and one
\* more Controller.update() complete), and the thread eventually leaves its
\* loop.  The last part is stated for the ticks the model's clock can count.
C34_ThreadLeavesLoop ==
    /\ [][ThClosed => ~plot_window_open']_vars
    /\ [][ThClosed /\ thPc = "check" => thPc' = "done"]_vars
    /\ [][ThClosed /\ thPc' # thPc => ThRank(thPc') > ThRank(thPc)]_vars
    /\ [][ThClosed /\ ThLeft => thPc' = thPc /\ thClock' = thClock
                                 /\ thHist' = thHist /\ thLast' = thLast]_vars
    /\ ((ThClosed /\ (thPc = "write" => thClock < MaxThTicks)) ~> ThLeft)

\* The window was closed and the thread, having run Writer.update() and
\* Controller.update(), found the flag cleared and left its loop.
C34_Witness ==
    /\ ThClosed
    /\ thPc = "done"
    /\ thClock >= 1
    /\ thHist[ThResultCount] = thClock
    /\ thLast.called

(***************************************************************************)
(* The rise-estimating variant (src/src/boilerdaq.py): a Result keeps a    *)
(* window of times and values and, for a source with est_rise, fits        *)
(* gain * (1 - exp(-time / tau)) to the window on every update().          *)
(* Averages are kept as fractions, [num, den] standing for num / den.      *)
(***************************************************************************)
\* The read/write/plot timestep, in seconds.
DELAY == 2

\* Points kept for plotting and fitting (300 in the source).
HISTORY_LENGTH == 3

\* Points of the running and of the initial average (60 in the source).
SUBHIST_LENGTH == 2

\* The update() calls followed on one Result, the one of __init__ included.
MaxRiseUpdates == 6

\* What a sensor reads.
RiseValues == {0, 1, 3}

\* Gains and time constants that curve_fit() may come back with.
GainFits == {0 - 1, 0, 1}
TauFits == {1, 2 * DELAY}

\* deque.append on a deque with maxlen = n.
PushN(d, v, n) ==
    IF n = 0 THEN <<>>
    ELSE IF Len(d) < n THEN Append(d, v)
    ELSE Append(Tail(d), v)

RECURSIVE SumSeq(_)
SumSeq(xs) == IF xs = <<>> THEN 0 ELSE xs[1] + SumSeq(Tail(xs))

\* statistics.mean of a non-empty sequence.
Mean(xs) == [num |-> SumSeq(xs), den |-> Len(xs)]

\* a - b for two fractions.
Minus(a, b) == [num |-> a.num * b.den - b.num * a.den, den |-> a.den * b.den]

\* float("nan").
NaNValue == [kind |-> "nan", num |-> 0, den |-> 1]

\* self.gain_guess / gain_fit, gain_fit being a numpy float: a zero divisor
\* gives nan or inf with a warning, no exception.
Quotient(g, gain_fit) ==
    IF gain_fit = 0
    THEN [kind |-> IF g.num = 0 THEN "nan" ELSE "inf", num |-> 0, den |-> 1]
    ELSE [kind |-> "num", num |-> g.num, den |-> g.den * gain_fit]

\* (NUM_TAUS * tau_fit - self.time[-1]) / 60, kept as its two inputs.
TimeLeft(tau_fit, last) == [kind |-> "num", num |-> tau_fit, den |-> last]

\* gain_bounds and tau_bounds of Result.update(): sorted([0, 100 * guess]),
\* the upper bound moved up by one when both are equal.  The gain bounds are
\* fractions over the denominator of the guess.
GainBounds(g) ==
    LET lo == IF 100 * g.num < 0 THEN 100 * g.num ELSE 0
        hi == IF 100 * g.num < 0 THEN 0 ELSE 100 * g.num
    IN  [lo |-> lo, hi |-> IF lo = hi THEN lo + g.den ELSE hi, den |-> g.den]

TauBounds(tau) ==
    LET lo == IF 100 * tau < 0 THEN 100 * tau ELSE 0
        hi == IF 100 * tau < 0 THEN 0 ELSE 100 * tau
    IN  [lo |-> lo, hi |-> IF lo = hi THEN lo + 1 ELSE hi]

\* What scipy's curve_fit(f, time, values, p0=guess, bounds=bounds) may do
\* once its arguments are accepted: raise RuntimeError when the
\* minimization fails, or return parameters within the bounds.
FitOutcomes(g, tau) ==
    {[kind |-> "RuntimeError", gain |-> 0, tau |-> 0]}
    \cup {[kind |-> "ok", gain |-> gf, tau |-> tf] :
            gf \in {x \in GainFits : /\ GainBounds(g).lo <= x * g.den
                                     /\ x * g.den <= GainBounds(g).hi},
            tf \in {x \in TauFits : /\ TauBounds(tau).lo <= x
                                    /\ x <= TauBounds(tau).hi}}

\* curve_fit(): ValueError for bounds that are not strictly ordered or a
\* guess outside them, else the outcome `out` of the minimization.
CurveFit(g, tau, out) ==
    LET gb == GainBounds(g)
        tb == TauBounds(tau)
    IN  IF \/ ~(gb.lo < gb.hi) \/ ~(tb.lo < tb.hi)
           \/ g.num < gb.lo \/ g.num > gb.hi
           \/ tau < tb.lo \/ tau > tb.hi
        THEN [kind |-> "ValueError", gain |-> 0, tau |-> 0]
        ELSE out

\* Result.__init__ of the variant, then self.source = ... of the subclass:
\* the windows are filled with zeros.  `updates` and `fits` count the
\* update() and curve_fit() calls, `fit` tells what curve_fit() did in the
\* latest update(), `raised` what the latest update() raised.
NewRiseResult(est_rise) ==
    [est_rise |-> est_rise,
     value |-> None,
     time |-> [k \in 1..HISTORY_LENGTH |-> 0],
     history |-> [k \in 1..HISTORY_LENGTH |-> 0],
     subhist_new |-> [k \in 1..(IF HISTORY_LENGTH < SUBHIST_LENGTH
                                THEN HISTORY_LENGTH ELSE SUBHIST_LENGTH) |-> 0],
     subhist_ini |-> <<>>,
     avg_ini |-> [num |-> 0, den |-> 1],
     gain_guess |-> [num |-> 0, den |-> 1],
     tau_guess |-> DELAY,
     rise |-> NaNValue,
     timeleft |-> NaNValue,
     updates |-> 0, fits |-> 0, fit |-> "none", raised |-> "none"]

\* Result.update() that fits as soon as the initial average is complete,
\* whatever the time window holds.
RiseResultUpdateNoWait(r, v, out) ==
    LET sn == PushN(r.subhist_new, v, SUBHIST_LENGTH)
        r1 == [r EXCEPT !.value = v,
                        !.history = PushN(@, v, HISTORY_LENGTH),
                        !.subhist_new = sn,
                        !.updates = @ + 1, !.fit = "none", !.raised = "none"]
        tick(x) == [x EXCEPT !.time = PushN(@, Last(r.time) + DELAY, HISTORY_LENGTH)]
    IN  IF ~r.est_rise THEN tick(r1)
        ELSE IF Len(r.subhist_ini) < SUBHIST_LENGTH
        THEN tick([r1 EXCEPT !.subhist_ini = Append(@, v),
                             !.avg_ini = Mean(Append(r.subhist_ini, v))])
        ELSE LET f == CurveFit(r.gain_guess, r.tau_guess, out)
                 r2 == [r1 EXCEPT !.fits = @ + 1, !.fit = f.kind]
             IN  IF f.kind = "ValueError" THEN [r2 EXCEPT !.raised = "ValueError"]
                 ELSE tick([r2 EXCEPT
                        !.rise = IF f.kind = "ok" THEN Quotient(r.gain_guess, f.gain)
                                 ELSE NaNValue,
                        !.timeleft = IF f.kind = "ok" THEN TimeLeft(f.tau, Last(r.time))
                                     ELSE NaNValue,
                        !.gain_guess = Minus(Mean(sn), r.avg_ini),
                        !.tau_guess = Last(r.time)])

\* The subclass's update() has set self.value = v; Result.update() appends
\* it to the windows, completes the initial average or fits, and appends
\* the next time.  An exception leaves update() before the time is appended.
RiseResultUpdate(r, v, out) ==
    LET sn == PushN(r.subhist_new, v, SUBHIST_LENGTH)
        r1 == [r EXCEPT !.value = v,
                        !.history = PushN(@, v, HISTORY_LENGTH),
                        !.subhist_new = sn,
                        !.updates = @ + 1, !.fit = "none", !.raised = "none"]
        tick(x) == [x EXCEPT !.time = PushN(@, Last(r.time) + DELAY, HISTORY_LENGTH)]
    IN  IF ~r.est_rise THEN tick(r1)
        ELSE IF Len(r.subhist_ini) < SUBHIST_LENGTH
        THEN tick([r1 EXCEPT !.subhist_ini = Append(@, v),
                             !.avg_ini = Mean(Append(r.subhist_ini, v))])
        ELSE IF r.time[1] > 0
        THEN LET f == CurveFit(r.gain_guess, r.tau_guess, out)
                 r2 == [r1 EXCEPT !.fits = @ + 1, !.fit = f.kind]
             IN  IF f.kind = "ValueError" THEN [r2 EXCEPT !.raised = "ValueError"]
                 ELSE tick([r2 EXCEPT
                        !.rise = IF f.kind = "ok" THEN Quotient(r.gain_guess, f.gain)
                                 ELSE NaNValue,
                        !.timeleft = IF f.kind = "ok" THEN TimeLeft(f.tau, Last(r.time))
                                     ELSE NaNValue,
                        !.gain_guess = Minus(Mean(sn), r.avg_ini),
                        !.tau_guess = Last(r.time)])
        ELSE tick(r1)

RiseInit == hw = "bench" /\ DaqInit /\ ThParked

\* Reading(sensor): Result.__init__, self.source = sensor, self.update().
NewReading ==
    /\ stage.rise = <<>>
    /\ \E est_rise \in BOOLEAN, v \in RiseValues :
          LET r == NewRiseResult(est_rise)
          IN  \E out \in FitOutcomes(r.gain_guess, r.tau_guess) :
                 stage' = [stage EXCEPT !.rise = <<RiseResultUpdate(r, v, out)>>]
    /\ UNCHANGED <<hw, results, instrument, handles, supply, writer, files,
                   controller, plotted, lstate, now, lastTick, timer, thVars>>

\* Writer.update(): r.update() of the Reading, with what the board reads.
RiseReadingUpdate ==
    /\ stage.rise # <<>>
    /\ stage.rise[1].raised = "none"
    /\ stage.rise[1].updates < MaxRiseUpdates
    /\ \E v \in RiseValues :
          LET r == stage.rise[1]
          IN  \E out \in FitOutcomes(r.gain_guess, r.tau_guess) :
                 stage' = [stage EXCEPT !.rise = <<RiseResultUpdate(r, v, out)>>]
    /\ UNCHANGED <<hw, results, instrument, handles, supply, writer, files,
                   controller, plotted, lstate, now, lastTick, timer, thVars>>

RiseNext ==
    \/ NewReading
    \/ RiseReadingUpdate

SpecRise == RiseInit /\ [][RiseNext]_vars

\* An update() of the rise-estimating Result has just been made.
RiseUpdated == stage'.rise # <<>> /\ stage' # stage

\* The Result before that update(); the one of __init__ starts from the
\* freshly built Result.
RiseBefore ==
    IF stage.rise = <<>> THEN NewRiseResult(stage'.rise[1].est_rise)
    ELSE stage.rise[1]

\* C35: for a Result whose source has est_rise set, an update() calls
\* curve_fit() only when the initial average was complete and time[0] > 0
\* before it, in which case the window holds HISTORY_LENGTH samples that
\* update() calls appended; in every such update() it calls curve_fit()
\* exactly once; a fit that fails with RuntimeError leaves rise and timeleft
\* NaN, raises nothing, and leaves the history as the update() appended it;
\* and no update() raises.
C35_FitOncePerUpdate ==
    [][RiseUpdated /\ stage'.rise[1].est_rise =>
        LET r == RiseBefore
            q == stage'.rise[1]
            ready == Len(r.subhist_ini) = SUBHIST_LENGTH /\ r.time[1] > 0
        IN  /\ q.updates = r.updates + 1
            /\ q.fits = r.fits + (IF ready THEN 1 ELSE 0)
            /\ ready => r.updates >= HISTORY_LENGTH
            /\ q.fits > r.fits => q.fit \in {"ok", "RuntimeError"}
            /\ q.raised = "none"
            /\ q.history = PushN(r.history, q.value, HISTORY_LENGTH)
            /\ q.fit = "RuntimeError" =>
                  q.rise.kind = "nan" /\ q.timeleft.kind = "nan"]_vars

\* A fit has succeeded and the next one has failed: rise and timeleft are
\* NaN again and the window holds the latest value.
C35_Witness ==
    /\ stage.rise # <<>>
    /\ stage.rise[1].est_rise
    /\ stage.rise[1].fits >= 2
    /\ stage.rise[1].fit = "RuntimeError"
    /\ stage.rise[1].rise.kind = "nan"
    /\ stage.rise[1].gain_guess.num # 0
    /\ Last(stage.rise[1].history) = stage.rise[1].value

====
